---------------------------- MODULE Spec2Model ----------------------------
(***************************************************************************)
(* A model of the broker simulation's routing and dispatch substrate:     *)
(*   - InternalNetwork   (src/core/internal_network.py)                   *)
(*   - the keyword classifier of BrokerAgent (src/core/broker_agent.py)   *)
(*   - the task queue of BrokerSubAgent (src/core/sub_agent.py)           *)
(*                                                                         *)
(* Frequencies and priorities are floats in the source; here they are     *)
(* integers counting hundredths (1.0 is 100, the 0.01 nudge is 1).         *)
(***************************************************************************)
EXTENDS Integers, Sequences, FiniteSets, TLC

(***************************************************************************)
(* Bounds of the model.                                                    *)
(***************************************************************************)
\* how many department names the graph mutations draw their arguments from
MaxPeers == 2
\* how many records the communication history may hold
MaxHistory == 2
\* how many nodes a queried graph may hold
MaxNodes == 3
\* how many edges a queried graph may hold
MaxEdges == 4
\* the largest top_n passed to get_central_divisions
MaxTopN == 3
MaxTextLen == 5
MaxAgents == 2
MaxTasks == 3
MaxBrokerTasks == 3
MaxResponders == 3
MaxTradingTasks == 2

(***************************************************************************)
(* Program constants.                                                      *)
(***************************************************************************)
\* min(1.0, ...) of record_communication, in hundredths
FREQ_CAP == 100
\* the + 0.01 of record_communication, in hundredths
FREQ_STEP == 1
\* the upper end of the documented (0-1) range of a frequency or priority
WEIGHT_MAX == 100
\* the default of get_central_divisions' top_n
TOP_N_DEFAULT == 3

\* the departments in registration order (BrokerAgent._initialize_divisions)
DIVISIONS ==
  << "investment_banking", "sales_trading", "research", "wealth_management",
     "asset_management", "risk_compliance", "executive" >>

Min(a, b) == IF a <= b THEN a ELSE b

Range(s) == { s[i] : i \in 1..Len(s) }

(***************************************************************************)
(* Python dict helpers: d[k] = v, del d[k], d.get(k, default).             *)
(***************************************************************************)
DictSet(d, k, v) == [ x \in DOMAIN d \cup {k} |-> IF x = k THEN v ELSE d[x] ]

DictDel(d, k) == [ x \in DOMAIN d \ {k} |-> d[x] ]

DictGet(d, k, default) == IF k \in DOMAIN d THEN d[k] ELSE default

(***************************************************************************)
(* The state.                                                              *)
(***************************************************************************)
VARIABLES
  network,                  \* nx.DiGraph: [nodes: insertion-ordered, edges]
  communication_frequency,  \* (source, target) -> frequency
  communication_priority,   \* (source, target) -> priority
  communication_history,    \* list of communication records
  last_call,                \* the call that completed last
  prev_call,                \* the call that completed before it
  path_result,              \* what get_communication_path returned last
  central_result,           \* what get_central_divisions returned last
  content,                  \* the message text handed to the classifier
  target_departments,       \* what _determine_target_departments returned
  pending_tasks,            \* department -> SubAgent.pending_tasks
  completed_tasks,          \* department -> SubAgent.completed_tasks
  task_results,             \* what process_tasks returned last
  admission,                \* department -> its _can_process_task
  tasks_created,            \* number of tasks created so far
  now,                      \* the clock datetime.now() reads
  internal_messages,        \* department -> SubAgent.internal_messages
  final_response,           \* what process_message returned last
  responses,                \* the (dept, response) items it collected
  decision,                 \* what resolve_conflict returned last
  trading_positions,        \* SalesTradingAgent.trading_positions
  client_orders,            \* SalesTradingAgent.client_orders
  market_making_securities, \* SalesTradingAgent.market_making_securities
  outcome,                  \* what the last direct call returned or raised
  market_simulation,        \* BrokerIntegration.market_simulation
  current_deals,            \* InvestmentBankingAgent.current_deals
  deal_history,             \* InvestmentBankingAgent.deal_history
  balance,                  \* agent -> BrokerAgent.balance
  transaction_history       \* agent -> BrokerAgent.transaction_history

net_vars ==
  << network, communication_frequency, communication_priority,
     communication_history, path_result, central_result >>

call_vars == << last_call, prev_call >>

classifier_vars == << content, target_departments >>

task_vars ==
  << pending_tasks, completed_tasks, task_results, admission, tasks_created,
     now >>

broker_vars ==
  << internal_messages, final_response, responses, decision >>

trading_vars ==
  << trading_positions, client_orders, market_making_securities, outcome,
     market_simulation >>

firm_vars ==
  << current_deals, deal_history, balance, transaction_history >>

vars ==
  << net_vars, call_vars, classifier_vars, task_vars, broker_vars,
     trading_vars, firm_vars >>

(***************************************************************************)
(* Inputs of the graph operations.                                         *)
(***************************************************************************)
Names(n) == { DIVISIONS[i] : i \in 1..Min(n, Len(DIVISIONS)) }

\* the departments the graph mutations are called with
Peers == Names(MaxPeers)

\* the (source, target) pairs the graph mutations are called with: the
\* repository connects, and sends between, distinct departments
Links == { st \in Peers \X Peers : st[1] # st[2] }

\* the departments a queried graph is built from
NodeNames == Names(MaxNodes)

\* the departments whose task queues are exercised
Agents == Names(MaxAgents)

\* (frequency, priority) pairs add_connection is called with, within
\* [0,1] but the last: the default 1.0/1.0, a pair one nudge below the cap,
\* and a frequency above 1.0, which add_connection stores unchecked
MetaInputs == { <<100, 100>>, <<99, 90>>, <<120, 90>> }

\* internal messages: one carrying a "timestamp" key, one without
Messages == { [content |-> "m1", timestamp |-> "t1"], [content |-> "m2"] }

\* a call of the InternalNetwork interface: the method and its arguments
Call(op, source, target, flag, n) ==
  [op |-> op, source |-> source, target |-> target, bidirectional |-> flag,
   top_n |-> n]

NoCall == Call("none", "", "", FALSE, 0)

\* the caller's side of a call: it becomes the last call, the one before it
\* the previous call
Called(call) ==
  /\ last_call' = call
  /\ prev_call' = last_call

\* a call of the InternalNetwork interface leaves the classifier and the
\* task lists alone
NetCalled(call) ==
  /\ Called(call)
  /\ UNCHANGED << classifier_vars, task_vars, broker_vars, trading_vars, firm_vars >>

(***************************************************************************)
(* networkx.DiGraph operations used by InternalNetwork.                    *)
(***************************************************************************)
\* DiGraph.add_node: a new node goes to the end of the node dict
add_node(G, n) ==
  IF n \in Range(G.nodes) THEN G ELSE [G EXCEPT !.nodes = Append(@, n)]

\* DiGraph.add_edge: adds the endpoints that are missing, u before v
add_edge(G, u, v) ==
  [add_node(add_node(G, u), v) EXCEPT !.edges = @ \cup {<<u, v>>}]

has_edge(G, u, v) == <<u, v>> \in G.edges

has_node(G, n) == n \in Range(G.nodes)

remove_edge(G, u, v) == [G EXCEPT !.edges = @ \ {<<u, v>>}]

(***************************************************************************)
(* InternalNetwork.__init__                                                *)
(***************************************************************************)
NetInit ==
  /\ network = [nodes |-> << >>, edges |-> {}]
  /\ communication_frequency = << >>
  /\ communication_priority = << >>
  /\ communication_history = << >>
  /\ last_call = NoCall
  /\ prev_call = NoCall
  /\ path_result = << >>
  /\ central_result = << >>

(***************************************************************************)
(* InternalNetwork.add_division                                            *)
(***************************************************************************)
add_division(division_name) ==
  /\ network' = add_node(network, division_name)
  /\ path_result' = << >>
  /\ central_result' = << >>
  /\ UNCHANGED << communication_frequency, communication_priority,
                  communication_history >>

(***************************************************************************)
(* InternalNetwork.add_connection                                          *)
(***************************************************************************)
\* a variant that writes both directions whatever bidirectional says
add_connection_both_ways(source, target, bidirectional, frequency, priority) ==
  /\ network' = add_edge(add_edge(network, source, target), target, source)
  /\ communication_frequency' =
       DictSet(DictSet(communication_frequency, <<source, target>>, frequency),
               <<target, source>>, frequency)
  /\ communication_priority' =
       DictSet(DictSet(communication_priority, <<source, target>>, priority),
               <<target, source>>, priority)
  /\ path_result' = << >>
  /\ central_result' = << >>
  /\ UNCHANGED communication_history

add_connection(source, target, bidirectional, frequency, priority) ==
  LET G1 == add_edge(network, source, target)
      f1 == DictSet(communication_frequency, <<source, target>>, frequency)
      p1 == DictSet(communication_priority, <<source, target>>, priority)
  IN  /\ network' = IF bidirectional THEN add_edge(G1, target, source) ELSE G1
      /\ communication_frequency' =
           IF bidirectional THEN DictSet(f1, <<target, source>>, frequency) ELSE f1
      /\ communication_priority' =
           IF bidirectional THEN DictSet(p1, <<target, source>>, priority) ELSE p1
      /\ path_result' = << >>
      /\ central_result' = << >>
      /\ UNCHANGED communication_history

(***************************************************************************)
(* InternalNetwork.remove_connection                                       *)
(***************************************************************************)
\* a variant that removes the edge but leaves its frequency and priority
\* entries behind
remove_connection_keeps_entries(source, target, bidirectional) ==
  LET G1 == remove_edge(network, source, target)
  IN  /\ network' = IF bidirectional THEN remove_edge(G1, target, source) ELSE G1
      /\ path_result' = << >>
      /\ central_result' = << >>
      /\ UNCHANGED << communication_frequency, communication_priority,
                      communication_history >>

remove_connection(source, target, bidirectional) ==
  LET fwd == has_edge(network, source, target)
      G1 == IF fwd THEN remove_edge(network, source, target) ELSE network
      f1 == IF fwd /\ <<source, target>> \in DOMAIN communication_frequency
            THEN DictDel(communication_frequency, <<source, target>>)
            ELSE communication_frequency
      p1 == IF fwd /\ <<source, target>> \in DOMAIN communication_priority
            THEN DictDel(communication_priority, <<source, target>>)
            ELSE communication_priority
      bwd == bidirectional /\ has_edge(G1, target, source)
  IN  /\ network' = IF bwd THEN remove_edge(G1, target, source) ELSE G1
      /\ communication_frequency' =
           IF bwd /\ <<target, source>> \in DOMAIN f1
           THEN DictDel(f1, <<target, source>>) ELSE f1
      /\ communication_priority' =
           IF bwd /\ <<target, source>> \in DOMAIN p1
           THEN DictDel(p1, <<target, source>>) ELSE p1
      /\ path_result' = << >>
      /\ central_result' = << >>
      /\ UNCHANGED communication_history

\* the default of the bidirectional parameter of remove_connection
REMOVE_BIDIRECTIONAL_DEFAULT == TRUE

\* remove_connection(source, target): a call that passes no bidirectional
remove_connection_default(source, target) ==
  remove_connection(source, target, REMOVE_BIDIRECTIONAL_DEFAULT)

(***************************************************************************)
(* InternalNetwork.record_communication                                    *)
(***************************************************************************)
\* a variant that forgets the min(1.0, ...) clamp
record_communication_unclamped(source, target, message) ==
  /\ communication_history' =
       Append(communication_history,
              [source |-> source, target |-> target, message |-> message,
               timestamp |-> DictGet(message, "timestamp", "")])
  /\ communication_frequency' =
       IF <<source, target>> \in DOMAIN communication_frequency
       THEN [communication_frequency EXCEPT ![<<source, target>>] = @ + FREQ_STEP]
       ELSE communication_frequency
  /\ path_result' = << >>
  /\ central_result' = << >>
  /\ UNCHANGED << network, communication_priority >>

\* a variant that warms up the reverse edge as well
record_communication_both_ways(source, target, message) ==
  /\ communication_history' =
       Append(communication_history,
              [source |-> source, target |-> target, message |-> message,
               timestamp |-> DictGet(message, "timestamp", "")])
  /\ communication_frequency' =
       [ e \in DOMAIN communication_frequency |->
           IF e \in {<<source, target>>, <<target, source>>}
           THEN Min(FREQ_CAP, communication_frequency[e] + FREQ_STEP)
           ELSE communication_frequency[e] ]
  /\ path_result' = << >>
  /\ central_result' = << >>
  /\ UNCHANGED << network, communication_priority >>

record_communication(source, target, message) ==
  /\ communication_history' =
       Append(communication_history,
              [source |-> source, target |-> target, message |-> message,
               timestamp |-> DictGet(message, "timestamp", "")])
  /\ communication_frequency' =
       IF <<source, target>> \in DOMAIN communication_frequency
       THEN [communication_frequency EXCEPT ![<<source, target>>] =
               Min(FREQ_CAP, @ + FREQ_STEP)]
       ELSE communication_frequency
  /\ path_result' = << >>
  /\ central_result' = << >>
  /\ UNCHANGED << network, communication_priority >>

(***************************************************************************)
(* networkx.shortest_path on an unweighted DiGraph: breadth-first search.  *)
(* A shortest path repeats no node, so the search extends simple paths by  *)
(* one edge per level and stops at the first level that reaches target.    *)
(***************************************************************************)
extend_paths(G, level) ==
  UNION { { Append(p, e[2]) :
              e \in { x \in G.edges : x[1] = p[Len(p)] /\ x[2] \notin Range(p) } } :
          p \in level }

RECURSIVE search_paths(_, _, _)
search_paths(G, target, level) ==
  IF level = {} THEN {}
  ELSE LET hits == { p \in level : p[Len(p)] = target }
       IN  IF hits # {} THEN hits
           ELSE search_paths(G, target, extend_paths(G, level))

\* a variant that searches on past the first level reaching target and so
\* also finds longer paths
RECURSIVE search_any_paths(_, _, _)
search_any_paths(G, target, level) ==
  IF level = {} THEN {}
  ELSE { p \in level : p[Len(p)] = target }
         \cup search_any_paths(G, target, extend_paths(G, level))

all_simple_paths(G, source, target) == search_any_paths(G, target, {<<source>>})

\* every shortest path from source to target; {} stands for NetworkXNoPath
all_shortest_paths(G, source, target) == search_paths(G, target, {<<source>>})

(***************************************************************************)
(* InternalNetwork.get_communication_path.  networkx returns one shortest  *)
(* path, chosen by its adjacency order; the model allows any of them.      *)
(***************************************************************************)
get_communication_path(source, target) ==
  /\ IF ~(has_node(network, source) /\ has_node(network, target))
     THEN path_result' = << >>
     ELSE LET found == all_shortest_paths(network, source, target)
          IN  IF found = {} THEN path_result' = << >>
              ELSE path_result' \in found
  /\ central_result' = << >>
  /\ UNCHANGED << network, communication_frequency, communication_priority,
                  communication_history >>

(***************************************************************************)
(* Exact fractions <<numerator, denominator>> for the centrality scores.   *)
(***************************************************************************)
RECURSIVE Gcd(_, _)
Gcd(a, b) == IF b = 0 THEN a ELSE Gcd(b, a % b)

Frac(n, d) == LET g == Gcd(n, d) IN <<n \div g, d \div g>>

FracAdd(x, y) == Frac(x[1] * y[2] + y[1] * x[2], x[2] * y[2])

FracLess(x, y) == x[1] * y[2] < y[1] * x[2]

RECURSIVE FracSum(_)
FracSum(S) ==
  IF S = {} THEN <<0, 1>>
  ELSE LET x == CHOOSE x \in S : TRUE
       IN  FracAdd(x[2], FracSum(S \ {x}))

(***************************************************************************)
(* networkx.betweenness_centrality(G), normalized, endpoints excluded.     *)
(***************************************************************************)
\* the share of the shortest s-t paths that pass through v
pair_dependency(G, s, t, v) ==
  LET sp == all_shortest_paths(G, s, t)
      through == { p \in sp : v \in Range(p) }
  IN  IF sp = {} THEN <<0, 1>> ELSE Frac(Cardinality(through), Cardinality(sp))

\* the sum of the pair dependencies, rescaled by 1/((n-1)(n-2)) when n > 2
betweenness(G, v) ==
  LET others == Range(G.nodes) \ {v}
      pairs == { st \in others \X others : st[1] # st[2] }
      total == FracSum({ <<st, pair_dependency(G, st[1], st[2], v)>> : st \in pairs })
      n == Len(G.nodes)
  IN  IF n <= 2 THEN total ELSE Frac(total[1], total[2] * (n - 1) * (n - 2))

\* centrality.items(): one (division, score) per node, in node order
betweenness_centrality(G) ==
  [ i \in 1..Len(G.nodes) |->
      [division |-> G.nodes[i], centrality |-> betweenness(G, G.nodes[i])] ]

(***************************************************************************)
(* sorted(items, key=score, reverse=True): a stable sort, so items of      *)
(* equal score keep the order they came in.                                *)
(***************************************************************************)
\* x goes behind every item whose score is not smaller than its own
insert_sorted(sorted, x) ==
  LET keep == { i \in 1..Len(sorted) :
                  ~FracLess(sorted[i].centrality, x.centrality) }
      k == Cardinality(keep)
  IN  SubSeq(sorted, 1, k) \o <<x>> \o SubSeq(sorted, k + 1, Len(sorted))

RECURSIVE sort_from(_, _, _)
sort_from(items, i, sorted) ==
  IF i > Len(items) THEN sorted
  ELSE sort_from(items, i + 1, insert_sorted(sorted, items[i]))

\* a variant that sorts without reverse=True: ascending
insert_ascending(sorted, x) ==
  LET keep == { i \in 1..Len(sorted) :
                  ~FracLess(x.centrality, sorted[i].centrality) }
      k == Cardinality(keep)
  IN  SubSeq(sorted, 1, k) \o <<x>> \o SubSeq(sorted, k + 1, Len(sorted))

RECURSIVE sort_ascending_from(_, _, _)
sort_ascending_from(items, i, sorted) ==
  IF i > Len(items) THEN sorted
  ELSE sort_ascending_from(items, i + 1, insert_ascending(sorted, items[i]))

sorted_ascending(items) == sort_ascending_from(items, 1, << >>)

sorted_by_centrality(items) == sort_from(items, 1, << >>)

(***************************************************************************)
(* InternalNetwork.get_central_divisions                                   *)
(***************************************************************************)
get_central_divisions(top_n) ==
  /\ central_result' =
       IF network.nodes = << >> THEN << >>
       ELSE LET sorted_centrality ==
                  sorted_by_centrality(betweenness_centrality(network))
            IN  SubSeq(sorted_centrality, 1, Min(top_n, Len(sorted_centrality)))
  /\ path_result' = << >>
  /\ UNCHANGED << network, communication_frequency, communication_priority,
                  communication_history >>

(***************************************************************************)
(* The specification of the graph mutations: the network is built from    *)
(* empty by add_division, add_connection and remove_connection, used by    *)
(* record_communication and read by the two queries.                       *)
(***************************************************************************)
NetNext ==
  \/ \E d \in Peers :
       add_division(d) /\ NetCalled(Call("add_division", d, "", FALSE, 0))
  \/ \E st \in Links, b \in BOOLEAN, m \in MetaInputs :
       /\ add_connection(st[1], st[2], b, m[1], m[2])
       /\ NetCalled(Call("add_connection", st[1], st[2], b, 0))
  \/ \E st \in Links, b \in BOOLEAN :
       /\ remove_connection(st[1], st[2], b)
       /\ NetCalled(Call("remove_connection", st[1], st[2], b, 0))
  \/ \E st \in Links :
       /\ remove_connection_default(st[1], st[2])
       /\ NetCalled(Call("remove_connection_default", st[1], st[2], FALSE, 0))
  \/ \E st \in Links, m \in Messages :
       /\ Len(communication_history) < MaxHistory
       /\ record_communication(st[1], st[2], m)
       /\ NetCalled(Call("record_communication", st[1], st[2], FALSE, 0))
  \/ \E st \in Links :
       /\ get_communication_path(st[1], st[2])
       /\ NetCalled(Call("get_communication_path", st[1], st[2], FALSE, 0))
  \/ /\ get_central_divisions(TOP_N_DEFAULT)
     /\ NetCalled(Call("get_central_divisions", "", "", FALSE, TOP_N_DEFAULT))

\* BrokerAgent before any message is classified
ClassifierIdle ==
  /\ content = << >>
  /\ target_departments = << >>

\* SubAgent.__init__ of every department: empty task lists, the admission
\* hook of the base class
TasksIdle ==
  /\ pending_tasks = [d \in Agents |-> << >>]
  /\ completed_tasks = [d \in Agents |-> << >>]
  /\ task_results = << >>
  /\ admission = [d \in Agents |-> [overridden |-> FALSE, rejects |-> {}]]
  /\ tasks_created = 0
  /\ now = 0

\* the broker and the trading desk before any call: empty inboxes, nothing
\* returned yet, no positions
NO_RESULT == << "None" >>

\* no direct call has returned or raised yet
NO_OUTCOME == [returned |-> FALSE, raised |-> ""]

\* SalesTradingAgent.__init__: no positions, orders or securities; no market
\* simulator handed to BrokerIntegration
\* no deal of the investment bank, no agent with funds
FirmIdle ==
  /\ current_deals = << >>
  /\ deal_history = << >>
  /\ balance = << >>
  /\ transaction_history = << >>

TradingIdle ==
  /\ trading_positions = << >>
  /\ client_orders = << >>
  /\ market_making_securities = << >>
  /\ outcome = NO_OUTCOME
  /\ market_simulation = "None"
  /\ FirmIdle

BrokerIdle ==
  /\ internal_messages = [d \in Range(DIVISIONS) |-> << >>]
  /\ final_response = << >>
  /\ responses = << >>
  /\ decision = NO_RESULT
  /\ TradingIdle

Init == NetInit /\ ClassifierIdle /\ TasksIdle /\ BrokerIdle

Next == NetNext

Spec == Init /\ [][Next]_vars

(***************************************************************************)
(* Properties of the graph mutations (checked under Spec).                 *)
(***************************************************************************)
Edge(call) == <<call.source, call.target>>

Reverse(e) == <<e[2], e[1]>>

WeightsInRange ==
  /\ \A e \in DOMAIN communication_frequency :
       0 <= communication_frequency[e] /\ communication_frequency[e] <= WEIGHT_MAX
  /\ \A e \in DOMAIN communication_priority :
       0 <= communication_priority[e] /\ communication_priority[e] <= WEIGHT_MAX

\* C1: a record_communication call made when every edge's frequency and
\* priority are within [0,1] leaves every edge's frequency and priority
\* within [0,1]; so they stay there over any sequence of such calls.
C1_RecordKeepsWeightsInRange ==
  [][ (WeightsInRange /\ last_call'.op = "record_communication")
        => WeightsInRange' ]_vars

\* C1 happens: a record_communication on an edge already at 1.0, after an
\* earlier one on the same edge, left it at 1.0
C1_Witness ==
  /\ last_call.op = "record_communication"
  /\ prev_call = last_call
  /\ Edge(last_call) \in DOMAIN communication_frequency
  /\ communication_frequency[Edge(last_call)] = FREQ_CAP
  /\ WeightsInRange

\* C2: record_communication(src, dst, msg) appends exactly one record
\* (src, dst, msg, timestamp) at the end of the history; when edge (src,dst)
\* exists its frequency becomes min(1.0, old + 0.01); the node set, the edge
\* set, every priority and every other frequency (the reverse edge's too)
\* are unchanged.
C2_RecordCommunicationEffect ==
  [][ last_call'.op = "record_communication" =>
        LET e == Edge(last_call') IN
        /\ \E m \in Messages :
             communication_history' =
               communication_history \o
                 << [source |-> e[1], target |-> e[2], message |-> m,
                     timestamp |-> IF "timestamp" \in DOMAIN m
                                   THEN m.timestamp ELSE ""] >>
        /\ e \in network.edges =>
             communication_frequency'[e] =
               Min(WEIGHT_MAX, communication_frequency[e] + FREQ_STEP)
        /\ DOMAIN communication_frequency' = DOMAIN communication_frequency
        /\ \A x \in DOMAIN communication_frequency \ {e} :
             communication_frequency'[x] = communication_frequency[x]
        /\ network' = network
        /\ communication_priority' = communication_priority ]_vars

\* C2 happens: after a record_communication on one direction of a pair of
\* edges added at 0.99, that direction is at 1.0 and the reverse still at 0.99
C2_Witness ==
  /\ last_call.op = "record_communication"
  /\ Len(communication_history) = 1
  /\ {Edge(last_call), Reverse(Edge(last_call))} \subseteq network.edges
  /\ communication_frequency[Edge(last_call)] = 100
  /\ communication_frequency[Reverse(Edge(last_call))] = 99

\* the call just made is an add_connection that writes edge e
WritesEdge(call, e) ==
  /\ call.op = "add_connection"
  /\ \/ e = Edge(call)
     \/ call.bidirectional /\ e = Reverse(Edge(call))

\* C3 as stated: over any graph operation that does not remove the edge,
\* the edge's frequency does not decrease.
C3_FrequencyNeverDecreases ==
  [][ \A e \in network.edges \cap network.edges' :
        communication_frequency'[e] >= communication_frequency[e] ]_vars

\* C3 as amended: the frequency of an edge that is at most 1.0 does not
\* decrease over any graph operation that neither removes the edge nor is
\* an add_connection writing it.
C3_FrequencyNeverDecreasesUnlessRewritten ==
  [][ \A e \in network.edges \cap network.edges' :
        (communication_frequency[e] <= WEIGHT_MAX /\ ~WritesEdge(last_call', e))
          => communication_frequency'[e] >= communication_frequency[e] ]_vars

\* C3 happens: a one-directional add_connection has just been made while
\* the reverse edge holds a frequency that a record_communication raised
C3_Witness ==
  /\ last_call.op = "add_connection"
  /\ ~last_call.bidirectional
  /\ prev_call.op = "record_communication"
  /\ Edge(prev_call) = Reverse(Edge(last_call))
  /\ Edge(prev_call) \in network.edges
  /\ communication_frequency[Edge(prev_call)] = 100
  /\ communication_priority[Edge(prev_call)] = 90

\* C4: remove_connection(A, B, bidirectional=false) on a graph holding both
\* A->B and B->A (as add_connection(A, B, bidirectional=true) leaves it)
\* removes A->B with its frequency and priority entries and keeps B->A with
\* the frequency and priority it had.
C4_OneWayRemovalKeepsReverse ==
  [][ ( /\ last_call'.op = "remove_connection"
        /\ ~last_call'.bidirectional
        /\ {Edge(last_call'), Reverse(Edge(last_call'))} \subseteq network.edges )
      => LET e == Edge(last_call')
             r == Reverse(e)
         IN  /\ e \notin network.edges'
             /\ e \notin DOMAIN communication_frequency'
             /\ e \notin DOMAIN communication_priority'
             /\ r \in network.edges'
             /\ r \in DOMAIN communication_frequency'
             /\ r \in DOMAIN communication_priority'
             /\ communication_frequency'[r] = communication_frequency[r]
             /\ communication_priority'[r] = communication_priority[r] ]_vars

\* C4 happens: add_connection(A, B, true) then remove_connection(A, B, false)
\* have been called and only B->A is left
C4_Witness ==
  /\ prev_call.op = "add_connection"
  /\ prev_call.bidirectional
  /\ last_call.op = "remove_connection"
  /\ ~last_call.bidirectional
  /\ Edge(last_call) = Edge(prev_call)
  /\ Edge(last_call) \notin network.edges
  /\ Reverse(Edge(last_call)) \in network.edges
  /\ Reverse(Edge(last_call)) \in DOMAIN communication_frequency

\* C5: a remove_connection(A, B) call that passes no bidirectional argument
\* removes only A->B and leaves B->A in place.
C5_DefaultRemovalKeepsReverse ==
  [][ ( /\ last_call'.op = "remove_connection_default"
        /\ Reverse(Edge(last_call')) \in network.edges )
      => /\ Reverse(Edge(last_call')) \in network.edges'
         /\ Reverse(Edge(last_call')) \in DOMAIN communication_frequency' ]_vars

(***************************************************************************)
(* The specification of the graph queries: any graph of up to MaxNodes    *)
(* nodes (in any insertion order) and MaxEdges edges, as add_division and  *)
(* add_connection build it, read by the two queries.                       *)
(***************************************************************************)
RECURSIVE orderings(_)
orderings(S) ==
  IF S = {} THEN { << >> }
  ELSE UNION { { Append(p, x) : p \in orderings(S \ {x}) } : x \in S }

QueryInit ==
  /\ \E S \in SUBSET NodeNames :
       \E order \in orderings(S) :
         \E E \in SUBSET (S \X S) :
           /\ Cardinality(E) <= MaxEdges
           /\ network = [nodes |-> order, edges |-> E]
           /\ communication_frequency = [e \in E |-> 100]
           /\ communication_priority = [e \in E |-> 100]
  /\ communication_history = << >>
  /\ last_call = NoCall
  /\ prev_call = NoCall
  /\ path_result = << >>
  /\ central_result = << >>
  /\ ClassifierIdle
  /\ TasksIdle
  /\ BrokerIdle

QueryNext ==
  \/ \E s \in NodeNames, t \in NodeNames :
       /\ get_communication_path(s, t)
       /\ last_call' = Call("get_communication_path", s, t, FALSE, 0)
       /\ UNCHANGED << prev_call, classifier_vars, task_vars, broker_vars,
                       trading_vars, firm_vars >>
  \/ \E n \in 0..MaxTopN :
       /\ get_central_divisions(n)
       /\ last_call' = Call("get_central_divisions", "", "", FALSE, n)
       /\ UNCHANGED << prev_call, classifier_vars, task_vars, broker_vars,
                       trading_vars, firm_vars >>

SpecQuery == QueryInit /\ [][QueryNext]_vars

(***************************************************************************)
(* Properties of the graph queries (checked under SpecQuery).              *)
(***************************************************************************)
\* the nodes reached from the set S in at most k hops (none in fewer than 0)
RECURSIVE within(_, _, _)
within(G, S, k) ==
  IF k < 0 THEN {}
  ELSE IF k = 0 THEN S
  ELSE within(G, S \cup { e[2] : e \in { x \in G.edges : x[1] \in S } }, k - 1)

\* target can be reached from source along directed edges
Reachable(G, source, target) ==
  /\ has_node(G, source)
  /\ has_node(G, target)
  /\ target \in within(G, {source}, Len(G.nodes))

\* path leads from source to target along edges of G
IsPath(G, path, source, target) ==
  /\ path # << >>
  /\ path[1] = source
  /\ path[Len(path)] = target
  /\ \A i \in 1..(Len(path) - 1) : <<path[i], path[i + 1]>> \in G.edges

\* C6: get_communication_path(src, dst) returns, when dst is reachable from
\* src, a path from src to dst along existing edges that no path with fewer
\* hops undercuts; when dst is not reachable it returns the no-path outcome
\* (the empty list); either way the graph, its frequencies, priorities and
\* history are unchanged.
C6_ShortestPathOrNoPath ==
  [][ last_call'.op = "get_communication_path" =>
        LET src == last_call'.source
            dst == last_call'.target
        IN  /\ IF Reachable(network, src, dst)
               THEN /\ IsPath(network, path_result', src, dst)
                    /\ dst \notin within(network, {src}, Len(path_result') - 2)
               ELSE path_result' = << >>
            /\ UNCHANGED << network, communication_frequency,
                            communication_priority, communication_history >>
    ]_vars

\* C6 happens: a path of two hops was returned although other, longer
\* routes may exist
C6_WitnessPath ==
  /\ last_call.op = "get_communication_path"
  /\ Len(path_result) = 3
  /\ Cardinality(network.edges) = MaxEdges

\* the hub h is joined both ways to each of N >= 2 other nodes and the
\* graph has no other node and no other edge
IsHubAndSpoke(G, h) ==
  LET spokes == Range(G.nodes) \ {h}
  IN  /\ h \in Range(G.nodes)
      /\ Cardinality(spokes) >= 2
      /\ G.edges = { <<h, x>> : x \in spokes } \cup { <<x, h>> : x \in spokes }

\* where a division stands in the node insertion order
Position(G, d) == CHOOSE i \in 1..Len(G.nodes) : G.nodes[i] = d

\* C7: get_central_divisions(top_n) returns min(top_n, number of nodes)
\* entries, each a distinct node with its betweenness, in non-increasing
\* betweenness order, equal scores in node insertion order, and no node left
\* out ranks before one returned; on a hub-and-spoke graph the first entry
\* is the hub (with betweenness 1), whatever the insertion order.
C7_CentralityRanking ==
  last_call.op = "get_central_divisions" =>
    LET r == central_result
        G == network
    IN  /\ Len(r) = Min(last_call.top_n, Len(G.nodes))
        /\ \A i \in 1..Len(r) :
             /\ r[i].division \in Range(G.nodes)
             /\ r[i].centrality = betweenness(G, r[i].division)
        /\ \A i \in 1..Len(r), j \in 1..Len(r) :
             i < j =>
               /\ ~FracLess(r[i].centrality, r[j].centrality)
               /\ r[i].centrality = r[j].centrality
                    => Position(G, r[i].division) < Position(G, r[j].division)
        /\ \A i \in 1..Len(r) :
             \A d \in Range(G.nodes) \ { r[k].division : k \in 1..Len(r) } :
               /\ ~FracLess(r[i].centrality, betweenness(G, d))
               /\ r[i].centrality = betweenness(G, d)
                    => Position(G, r[i].division) < Position(G, d)
        /\ \A h \in Range(G.nodes) :
             (IsHubAndSpoke(G, h) /\ last_call.top_n >= 1)
               => r[1] = [division |-> h, centrality |-> <<1, 1>>]

\* C7 happens: the hub of a hub-and-spoke graph was inserted last and is
\* returned first
C7_Witness ==
  /\ last_call.op = "get_central_divisions"
  /\ Len(network.nodes) >= 3
  /\ IsHubAndSpoke(network, network.nodes[Len(network.nodes)])
  /\ Len(central_result) >= 2
  /\ central_result[1].division = network.nodes[Len(network.nodes)]

(***************************************************************************)
(* BrokerAgent._determine_target_departments: the keyword classifier.      *)
(* A text is a sequence of characters; a character outside ASCII is named  *)
(* by its code point ("u4e0a" is U+4E0A).  The table is the keywords dict, *)
(* in its insertion order.                                                 *)
(***************************************************************************)
KEYWORDS ==
  << [dept |-> "investment_banking",
      words |->
      << <<"I", "P", "O">>,
         <<"u4e0a", "u5e02">>,
         <<"u878d", "u8d44">>,
         <<"u627f", "u9500">>,
         <<"u5e76", "u8d2d">>,
         <<"u91cd", "u7ec4">>,
         <<"u53d1", "u884c">> >>],
     [dept |-> "sales_trading",
      words |->
      << <<"u4ea4", "u6613">>,
         <<"u80a1", "u7968">>,
         <<"u503a", "u5238">>,
         <<"u4e70", "u5165">>,
         <<"u5356", "u51fa">>,
         <<"u5e02", "u573a">>,
         <<"u62a5", "u4ef7">>,
         <<"u505a", "u5e02">> >>],
     [dept |-> "research",
      words |->
      << <<"u7814", "u7a76">>,
         <<"u5206", "u6790">>,
         <<"u62a5", "u544a">>,
         <<"u8bc4", "u7ea7">>,
         <<"u884c", "u4e1a">>,
         <<"u8d8b", "u52bf">>,
         <<"u9884", "u6d4b">> >>],
     [dept |-> "wealth_management",
      words |->
      << <<"u7406", "u8d22">>,
         <<"u8d22", "u5bcc">>,
         <<"u8d44", "u4ea7", "u914d", "u7f6e">>,
         <<"u6295", "u8d44", "u7ec4", "u5408">>,
         <<"u4e2a", "u4eba">>,
         <<"u5bb6", "u65cf">> >>],
     [dept |-> "asset_management",
      words |->
      << <<"u57fa", "u91d1">>,
         <<"u8d44", "u7ba1">>,
         <<"u4ea7", "u54c1">>,
         <<"u6295", "u8d44", "u7b56", "u7565">>,
         <<"u7ec4", "u5408", "u7ba1", "u7406">> >>],
     [dept |-> "risk_compliance",
      words |->
      << <<"u98ce", "u9669">>,
         <<"u5408", "u89c4">>,
         <<"u76d1", "u7ba1">>,
         <<"u5ba1", "u8ba1">>,
         <<"u5185", "u63a7">>,
         <<"u6cd5", "u89c4">> >>],
     [dept |-> "executive",
      words |->
      << <<"u6218", "u7565">>,
         <<"u5408", "u4f5c">>,
         <<"u5168", "u5c40">>,
         <<"u516c", "u53f8">>,
         <<"u53d1", "u5c55">>,
         <<"u89c4", "u5212">> >>] >>

\* the default of the classifier: the executive team
DEFAULT_DEPARTMENT == "executive"

\* Python's "word in message" on strings: word is a substring of message
IsSubstring(word, text) ==
  \E i \in 1..(Len(text) - Len(word) + 1) :
    SubSeq(text, i, i + Len(word) - 1) = word

\* the number of places of text at which word occurs
occurrences(word, text) ==
  Cardinality({ i \in 1..(Len(text) - Len(word) + 1) :
                  SubSeq(text, i, i + Len(word) - 1) = word })

\* a score that counts every occurrence of every keyword of words
count_occurrences(words, text) ==
  LET RECURSIVE total(_)
      total(k) ==
        IF k = 0 THEN 0 ELSE total(k - 1) + occurrences(words[k], text)
  IN  total(Len(words))

\* sum(1 for word in words if word in message)
keyword_score(words, text) ==
  Cardinality({ k \in 1..Len(words) : IsSubstring(words[k], text) })

\* the scores dict: the departments with a positive score, in the order of
\* the keywords dict, each with its score
RECURSIVE scores_from(_, _)
scores_from(k, text) ==
  IF k > Len(KEYWORDS) THEN << >>
  ELSE LET score == keyword_score(KEYWORDS[k].words, text)
           rest == scores_from(k + 1, text)
       IN  IF score > 0
             THEN << [dept |-> KEYWORDS[k].dept, score |-> score] >> \o rest
             ELSE rest

keyword_scores(text) == scores_from(1, text)

\* max(scores.values())
max_score(scores) ==
  CHOOSE m \in { scores[i].score : i \in 1..Len(scores) } :
    \A i \in 1..Len(scores) : scores[i].score <= m

\* [dept for dept, score in scores.items() if score == max_score]
RECURSIVE select_max(_, _, _)
select_max(scores, best, k) ==
  IF k > Len(scores) THEN << >>
  ELSE IF scores[k].score = best
         THEN << scores[k].dept >> \o select_max(scores, best, k + 1)
         ELSE select_max(scores, best, k + 1)

\* the first department with the highest score only
single_winner(text) ==
  LET scores == keyword_scores(text)
  IN  IF scores = << >> THEN << DEFAULT_DEPARTMENT >>
      ELSE << select_max(scores, max_score(scores), 1)[1] >>

determine_target_departments(text) ==
  LET scores == keyword_scores(text)
  IN  IF scores = << >> THEN << DEFAULT_DEPARTMENT >>
      ELSE select_max(scores, max_score(scores), 1)

(***************************************************************************)
(* The specification of the classifier: any text of up to MaxTextLen       *)
(* characters of Alphabet, classified.  The characters spell the keywords  *)
(* U+4E0A U+5E02 (investment_banking), U+505A U+5E02 and U+5E02 U+573A     *)
(* (sales_trading), which overlap in a text, and U+884C U+4E1A (research). *)
(***************************************************************************)
Alphabet == { "u4e0a", "u5e02", "u573a", "u505a", "u884c", "u4e1a" }

Texts == UNION { [1..n -> Alphabet] : n \in 0..MaxTextLen }

ClassifyInit ==
  /\ NetInit
  /\ TasksIdle
  /\ BrokerIdle
  /\ content \in Texts
  /\ target_departments = << >>

ClassifyNext ==
  /\ target_departments' = determine_target_departments(content)
  /\ last_call' = Call("_determine_target_departments", "", "", FALSE, 0)
  /\ UNCHANGED << content, prev_call, net_vars, task_vars, broker_vars,
                  trading_vars, firm_vars >>

SpecClassify == ClassifyInit /\ [][ClassifyNext]_vars

(***************************************************************************)
(* Properties of the classifier (checked under SpecClassify).              *)
(***************************************************************************)
Departments == { KEYWORDS[k].dept : k \in 1..Len(KEYWORDS) }

WordsOf(d) ==
  KEYWORDS[CHOOSE k \in 1..Len(KEYWORDS) : KEYWORDS[k].dept = d].words

\* the departments a tie-inclusive choice picks by the scores in score (a
\* function of the department): those with the highest score if it is
\* positive, the executive team otherwise
Winners(score) ==
  LET top == CHOOSE m \in { score[d] : d \in Departments } :
               \A d \in Departments : score[d] <= m
  IN  IF top > 0
        THEN { d \in Departments : score[d] = top }
        ELSE { DEFAULT_DEPARTMENT }

NoDuplicates(s) == \A i, j \in 1..Len(s) : s[i] = s[j] => i = j

Classified(call) == call.op = "_determine_target_departments"

\* C8: a call of the classifier returns exactly the departments whose score
\* is the highest one when that is positive (every tied department, none
\* with a lower or zero score), and exactly the executive team when every
\* score is 0; the result is never empty and lists no department twice, a
\* text that matches one department only returns that department alone, and
\* the call changes neither the text nor any other state.
C8_ClassifierReturnsTiedMaxima ==
  [][ Classified(last_call') =>
        LET matched == { d \in Departments :
                           keyword_score(WordsOf(d), content) > 0 }
        IN  /\ target_departments' # << >>
            /\ NoDuplicates(target_departments')
            /\ Range(target_departments')
                 = Winners([d \in Departments |->
                              keyword_score(WordsOf(d), content)])
            /\ matched = {} => target_departments' = << DEFAULT_DEPARTMENT >>
            /\ \A d \in Departments :
                 matched = {d} => target_departments' = << d >>
            /\ Range(target_departments') \subseteq matched
                 \/ matched = {}
            /\ UNCHANGED << content, net_vars, task_vars, broker_vars,
                            trading_vars, firm_vars >> ]_vars

\* a text in which sales_trading scores 2 and investment_banking 1 has been
\* classified as sales_trading alone
C8_Witness ==
  /\ Classified(last_call)
  /\ keyword_score(WordsOf("sales_trading"), content) = 2
  /\ keyword_score(WordsOf("investment_banking"), content) = 1
  /\ target_departments = << "sales_trading" >>

\* C9 as stated: the classifier scores a department by the occurrences of
\* its keywords in the text, a keyword that occurs k times counting k, so
\* the departments returned are those with the most occurrences.
C9_ScoreCountsOccurrences ==
  Classified(last_call) =>
    Range(target_departments)
      = Winners([d \in Departments |->
                   count_occurrences(WordsOf(d), content)])

\* the number of keywords of words that occur in text at least once
keywords_present(words, text) ==
  Cardinality({ k \in 1..Len(words) : occurrences(words[k], text) >= 1 })

\* C9 as amended: the classifier scores a department by the number of its
\* keywords that occur in the text at least once, however often each
\* occurs, so the departments returned are those with the most keywords
\* present.
C9_ScoreCountsKeywordsPresent ==
  Classified(last_call) =>
    /\ Range(target_departments)
         = Winners([d \in Departments |->
                      keywords_present(WordsOf(d), content)])
    /\ \A d \in Departments :
         keyword_score(WordsOf(d), content)
           = keywords_present(WordsOf(d), content)

\* a text in which a keyword of investment_banking occurs twice and a
\* keyword of sales_trading once has been classified as a tie of the two
C9_Witness ==
  /\ Classified(last_call)
  /\ count_occurrences(WordsOf("investment_banking"), content) = 2
  /\ count_occurrences(WordsOf("sales_trading"), content) = 1
  /\ target_departments = << "investment_banking", "sales_trading" >>

(***************************************************************************)
(* SubAgent: the task lists of a department.                               *)
(***************************************************************************)
\* the task types BrokerAgent creates
TaskTypes == { "message_processing", "conflict_resolution" }

\* SubAgent._can_process_task: the default admits every task
can_process_task(task) == TRUE

\* self._can_process_task(task) as a department is bound to it: the default
\* of SubAgent, or the override of a subclass, modelled as one that rejects
\* the task types in "rejects"
admits(agent, task) ==
  IF admission[agent].overridden
    THEN task.type \notin admission[agent].rejects
    ELSE can_process_task(task)

\* SubAgent._process_task: the default result
process_task(agent, task) ==
  [status |-> "completed",
   message |-> << agent, "processed the task" >>,
   task_id |-> DictGet(task, "id", "unknown")]

\* SubAgent.add_task
add_task(agent, task) ==
  /\ pending_tasks' = [pending_tasks EXCEPT ![agent] = Append(@, task)]
  /\ UNCHANGED << completed_tasks, task_results, admission, now >>

\* a task put in front of the tasks kept so far
retain_in_front(remaining_tasks, task) == << task >> \o remaining_tasks

\* a rejected task kept nowhere
retain_nothing(remaining_tasks, task) == remaining_tasks

\* remaining_tasks.append(task)
retain(remaining_tasks, task) == Append(remaining_tasks, task)

\* the loop with the completed log written newest first
RECURSIVE process_loop_log_in_front(_, _, _)
process_loop_log_in_front(agent, k, st) ==
  IF k > Len(st.pending_tasks) THEN st
  ELSE LET task == st.pending_tasks[k]
       IN  IF admits(agent, task)
             THEN LET result == process_task(agent, task)
                  IN  process_loop_log_in_front(agent, k + 1,
                        [st EXCEPT
                           !.results = Append(@, result),
                           !.completed_tasks =
                              << [task |-> task, result |-> result,
                                  timestamp |-> st.now] >> \o @,
                           !.now = @ + 1])
             ELSE process_loop_log_in_front(agent, k + 1,
                    [st EXCEPT
                       !.remaining_tasks = retain(@, task)])

\* the loop of process_tasks from the k-th pending task on; st holds the
\* locals results and remaining_tasks, the list the loop runs over, the
\* completed tasks and the clock
RECURSIVE process_loop(_, _, _)
process_loop(agent, k, st) ==
  IF k > Len(st.pending_tasks) THEN st
  ELSE LET task == st.pending_tasks[k]
       IN  IF admits(agent, task)
             THEN LET result == process_task(agent, task)
                  IN  process_loop(agent, k + 1,
                        [st EXCEPT
                           !.results = Append(@, result),
                           !.completed_tasks =
                              Append(@, [task |-> task, result |-> result,
                                         timestamp |-> st.now]),
                           !.now = @ + 1])
             ELSE process_loop(agent, k + 1,
                    [st EXCEPT
                       !.remaining_tasks = retain(@, task)])

\* SubAgent.process_tasks
process_tasks(agent) ==
  IF pending_tasks[agent] = << >>
    THEN /\ task_results' = << >>
         /\ UNCHANGED << pending_tasks, completed_tasks, admission, now >>
    ELSE LET st == process_loop(agent, 1,
                     [pending_tasks |-> pending_tasks[agent],
                      results |-> << >>,
                      remaining_tasks |-> << >>,
                      completed_tasks |-> completed_tasks[agent],
                      now |-> now])
         IN  /\ pending_tasks' =
                  [pending_tasks EXCEPT ![agent] = st.remaining_tasks]
             /\ completed_tasks' =
                  [completed_tasks EXCEPT ![agent] = st.completed_tasks]
             /\ task_results' = st.results
             /\ now' = st.now
             /\ UNCHANGED admission

(***************************************************************************)
(* The specification of the task lists: every department is bound to the   *)
(* default admission hook or to an override; tasks with fresh ids are      *)
(* added and the lists processed in any order.                             *)
(***************************************************************************)
AdmissionHooks ==
  { [overridden |-> FALSE, rejects |-> {}] }
    \cup { [overridden |-> TRUE, rejects |-> R] :
             R \in SUBSET TaskTypes \ { {} } }

TasksInit ==
  /\ NetInit
  /\ ClassifierIdle
  /\ BrokerIdle
  /\ pending_tasks = [d \in Agents |-> << >>]
  /\ completed_tasks = [d \in Agents |-> << >>]
  /\ task_results = << >>
  /\ admission \in [Agents -> AdmissionHooks]
  /\ tasks_created = 0
  /\ now = 0

TasksNext ==
  \/ \E agent \in Agents, type \in TaskTypes :
       /\ tasks_created < MaxTasks
       /\ tasks_created' = tasks_created + 1
       /\ add_task(agent, [id |-> tasks_created + 1, type |-> type])
       /\ last_call' = Call("add_task", agent, "", FALSE, 0)
       /\ UNCHANGED << prev_call, net_vars, classifier_vars, broker_vars,
                       trading_vars, firm_vars >>
  \/ \E agent \in Agents :
       /\ process_tasks(agent)
       /\ last_call' = Call("process_tasks", agent, "", FALSE, 0)
       /\ UNCHANGED << tasks_created, prev_call, net_vars, classifier_vars,
                       broker_vars, trading_vars, firm_vars >>

SpecTasks == TasksInit /\ [][TasksNext]_vars

(***************************************************************************)
(* Properties of the task lists (checked under SpecTasks).                 *)
(***************************************************************************)
\* C10: when process_tasks of a department returns, the tasks still pending
\* there are exactly the tasks of the list before the call that the
\* admission hook rejects, each once and in the order they had before the
\* call; the pending tasks of the other departments are as before.
C10_PendingIsStablePartition ==
  [][ last_call'.op = "process_tasks" =>
        LET agent == last_call'.source
            rejected(task) == ~admits(agent, task)
        IN  /\ pending_tasks'[agent]
                 = SelectSeq(pending_tasks[agent], rejected)
            /\ \A d \in Agents \ {agent} :
                 pending_tasks'[d] = pending_tasks[d] ]_vars

\* process_tasks has completed the second of three tasks of a department
\* and kept the first and the third
C10_Witness ==
  /\ last_call.op = "process_tasks"
  /\ LET d == last_call.source
     IN  /\ admission[d].overridden
         /\ Len(pending_tasks[d]) = 2
         /\ Len(completed_tasks[d]) = 1
         /\ pending_tasks[d][1].id < completed_tasks[d][1].task.id
         /\ completed_tasks[d][1].task.id < pending_tasks[d][2].id

\* C11: when process_tasks of a department returns, the list it returns has
\* one result for each task the admission hook admits, the i-th result for
\* the i-th admitted task of the pending list; the completed log is the log
\* before the call followed by one (task, result, timestamp) entry for each
\* admitted task, in that order; with nothing pending it returns the empty
\* list and changes nothing.
C11_ResultsFollowAdmittedOrder ==
  [][ last_call'.op = "process_tasks" =>
        LET agent == last_call'.source
            admitted_task(task) == admits(agent, task)
            admitted == SelectSeq(pending_tasks[agent], admitted_task)
            before == completed_tasks[agent]
            after == completed_tasks'[agent]
        IN  /\ Len(task_results') = Len(admitted)
            /\ \A i \in 1..Len(admitted) :
                 /\ task_results'[i].task_id = admitted[i].id
                 /\ task_results'[i].status = "completed"
            /\ Len(after) = Len(before) + Len(admitted)
            /\ SubSeq(after, 1, Len(before)) = before
            /\ \A i \in 1..Len(admitted) :
                 /\ after[Len(before) + i].task = admitted[i]
                 /\ after[Len(before) + i].result = task_results'[i]
                 /\ after[Len(before) + i].timestamp >= now
            /\ \A d \in DOMAIN completed_tasks \ {agent} :
                 completed_tasks'[d] = completed_tasks[d]
            /\ pending_tasks[agent] = << >> =>
                 /\ task_results' = << >>
                 /\ UNCHANGED << pending_tasks, completed_tasks, admission,
                                 tasks_created, now >> ]_vars

\* one call of process_tasks has completed two tasks of a department whose
\* log already held an entry
C11_Witness ==
  /\ last_call.op = "process_tasks"
  /\ Len(task_results) = 2
  /\ Len(completed_tasks[last_call.source]) = 3
  /\ completed_tasks[last_call.source][2].result = task_results[1]
  /\ completed_tasks[last_call.source][3].result = task_results[2]

(***************************************************************************)
(* BrokerAgent: the departments, their network, and the operations that    *)
(* hand tasks to them.  A string the code formats is the sequence of its   *)
(* pieces; a Chinese literal is rendered in English.                       *)
(***************************************************************************)
\* self.name of the broker
BROKER_NAME == "broker"

\* self.divisions[dept].name: the broker's name and the department's label
division_name(dept) == << BROKER_NAME, " - ", dept >>

\* the add_connection calls of _build_internal_network, in order; every
\* one is bidirectional
BROKER_CONNECTIONS ==
  << << "executive", "investment_banking", 100, 100 >>,
     << "executive", "sales_trading", 100, 100 >>,
     << "executive", "research", 100, 100 >>,
     << "executive", "wealth_management", 100, 100 >>,
     << "executive", "asset_management", 100, 100 >>,
     << "executive", "risk_compliance", 100, 100 >>,
     << "risk_compliance", "investment_banking", 80, 90 >>,
     << "risk_compliance", "sales_trading", 80, 90 >>,
     << "risk_compliance", "research", 80, 90 >>,
     << "risk_compliance", "wealth_management", 80, 90 >>,
     << "risk_compliance", "asset_management", 80, 90 >>,
     << "research", "sales_trading", 90, 80 >>,
     << "research", "asset_management", 90, 80 >>,
     << "research", "wealth_management", 90, 80 >>,
     << "investment_banking", "sales_trading", 70, 70 >>,
     << "wealth_management", "asset_management", 80, 70 >> >>

\* the call of _build_internal_network that writes edge e: no two calls
\* connect the same pair of departments
connection_of(e) ==
  CHOOSE k \in 1..Len(BROKER_CONNECTIONS) :
    {BROKER_CONNECTIONS[k][1], BROKER_CONNECTIONS[k][2]} = {e[1], e[2]}

\* the network _build_internal_network leaves: a node for every department
\* in the order of self.divisions, both directions of every connection
built_network ==
  LET edges == UNION { { << BROKER_CONNECTIONS[k][1], BROKER_CONNECTIONS[k][2] >>,
                         << BROKER_CONNECTIONS[k][2], BROKER_CONNECTIONS[k][1] >> } :
                       k \in 1..Len(BROKER_CONNECTIONS) }
  IN  [network |-> [nodes |-> DIVISIONS, edges |-> edges],
       frequency |-> [e \in edges |-> BROKER_CONNECTIONS[connection_of(e)][3]],
       priority |-> [e \in edges |-> BROKER_CONNECTIONS[connection_of(e)][4]]]

\* BrokerAgent.__init__: _initialize_divisions, then _build_internal_network
BrokerNetInit ==
  LET N == built_network
  IN  /\ network = N.network
      /\ communication_frequency = N.frequency
      /\ communication_priority = N.priority
      /\ communication_history = << >>
      /\ last_call = NoCall
      /\ prev_call = NoCall
      /\ path_result = << >>
      /\ central_result = << >>

\* the state the broker's operations work on, as one record
broker_state ==
  [pending_tasks |-> pending_tasks,
   completed_tasks |-> completed_tasks,
   results |-> task_results,
   tasks_created |-> tasks_created,
   now |-> now,
   internal_messages |-> internal_messages,
   history |-> communication_history,
   frequency |-> communication_frequency]

\* process_tasks that logs and returns the results and leaves the list of
\* pending tasks as it was
run_process_tasks_keeps_pending(agent, B) ==
  IF B.pending_tasks[agent] = << >>
    THEN [B EXCEPT !.results = << >>]
    ELSE LET st == process_loop(agent, 1,
                     [pending_tasks |-> B.pending_tasks[agent],
                      results |-> << >>,
                      remaining_tasks |-> << >>,
                      completed_tasks |-> B.completed_tasks[agent],
                      now |-> B.now])
         IN  [B EXCEPT !.completed_tasks[agent] = st.completed_tasks,
                       !.results = st.results,
                       !.now = st.now]

\* SubAgent.process_tasks of a department, on the record B
run_process_tasks(agent, B) ==
  IF B.pending_tasks[agent] = << >>
    THEN [B EXCEPT !.results = << >>]
    ELSE LET st == process_loop(agent, 1,
                     [pending_tasks |-> B.pending_tasks[agent],
                      results |-> << >>,
                      remaining_tasks |-> << >>,
                      completed_tasks |-> B.completed_tasks[agent],
                      now |-> B.now])
         IN  [B EXCEPT !.pending_tasks[agent] = st.remaining_tasks,
                       !.completed_tasks[agent] = st.completed_tasks,
                       !.results = st.results,
                       !.now = st.now]

\* the literal pieces of the replies of process_message and
\* _integrate_responses
RECEIVED_PROCESSING == " has received your message and is processing it."

RECEIVED_NO_REPLY ==
  " has received your message but cannot give a specific reply now."

RECEIVED_ANALYSING == " has received your message and is analysing it."

INTEGRATED_REPLY == " integrated reply:\n\n"

OPINION == " opinion: "

PART_SEPARATOR == "\n\n"

\* "\n\n".join(response_parts)
RECURSIVE join_parts(_)
join_parts(parts) ==
  IF parts = << >> THEN << >>
  ELSE IF Len(parts) = 1 THEN parts[1]
  ELSE parts[1] \o << PART_SEPARATOR >> \o join_parts(Tail(parts))

\* the part of the first responder only
only_first_part(department_responses) ==
  << division_name(department_responses[1].dept) \o << OPINION >>
       \o DictGet(department_responses[1].response, "message", << >>) >>

\* the loop of _integrate_responses over department_responses.items()
RECURSIVE response_parts(_)
response_parts(department_responses) ==
  IF department_responses = << >> THEN << >>
  ELSE LET dept == department_responses[1].dept
           text == DictGet(department_responses[1].response, "message", << >>)
           rest == response_parts(Tail(department_responses))
       IN  IF text # << >>
             THEN << division_name(dept) \o << OPINION >> \o text >> \o rest
             ELSE rest

\* the reply of the first responder, whichever department it is
first_response_wins(department_responses) ==
  DictGet(department_responses[1].response, "message", << >>)

\* BrokerAgent._integrate_responses; department_responses is the dict as
\* the sequence of its (dept, response) items
integrate_responses(department_responses) ==
  LET at_executive ==
        { i \in 1..Len(department_responses) :
            department_responses[i].dept = "executive" }
  IN  IF at_executive # {}
        THEN DictGet(department_responses[CHOOSE i \in at_executive : TRUE]
                       .response, "message", << >>)
        ELSE LET parts == response_parts(department_responses)
             IN  IF parts # << >>
                   THEN << BROKER_NAME, INTEGRATED_REPLY >> \o join_parts(parts)
                   ELSE << BROKER_NAME, RECEIVED_ANALYSING >>

\* the loop of process_message over target_departments, from the k-th on:
\* a task for the department, add_task, process_tasks, the first result
RECURSIVE collect_responses(_, _, _, _)
collect_responses(text, targets, k, B) ==
  IF k > Len(targets) THEN B
  ELSE LET dept == targets[k]
       IN  IF dept \in DOMAIN B.pending_tasks
             THEN LET task == [id |-> B.tasks_created + 1,
                               type |-> "message_processing",
                               content |-> text,
                               sender |-> "unknown",
                               metadata |-> << >>,
                               timestamp |-> B.now]
                      queued == [B EXCEPT
                                   !.pending_tasks[dept] = Append(@, task),
                                   !.tasks_created = @ + 1,
                                   !.now = @ + 1]
                      done == run_process_tasks(dept, queued)
                  IN  collect_responses(text, targets, k + 1,
                        IF done.results # << >>
                          THEN [done EXCEPT
                                  !.department_responses =
                                     Append(@, [dept |-> dept,
                                                response |-> done.results[1]])]
                          ELSE done)
             ELSE collect_responses(text, targets, k + 1, B)

\* the integrated reply, whatever the number of responders
always_integrates(department_responses) ==
  integrate_responses(department_responses)

\* the choice of process_message among the integrated reply, the reply of
\* the only responder and the reply for no responder
choose_response(department_responses) ==
  IF Len(department_responses) > 1
    THEN integrate_responses(department_responses)
    ELSE IF department_responses # << >>
      THEN DictGet(department_responses[1].response, "message",
                   << BROKER_NAME, RECEIVED_PROCESSING >>)
      ELSE << BROKER_NAME, RECEIVED_NO_REPLY >>

\* BrokerAgent.process_message
process_message(text) ==
  LET classified == determine_target_departments(text)
      targets == IF classified = << >> THEN << "executive" >> ELSE classified
      B == collect_responses(text, targets, 1,
             [department_responses |-> << >>] @@ broker_state)
  IN  /\ content' = text
      /\ target_departments' = targets
      /\ pending_tasks' = B.pending_tasks
      /\ completed_tasks' = B.completed_tasks
      /\ task_results' = B.results
      /\ tasks_created' = B.tasks_created
      /\ now' = B.now
      /\ responses' = B.department_responses
      /\ final_response' = choose_response(B.department_responses)
      /\ UNCHANGED << admission, internal_messages, decision, net_vars,
                      trading_vars, firm_vars >>

\* SubAgent.get_viewpoint: the default viewpoint of a department
NEEDS_ANALYSIS == " thinks this question needs further analysis."

get_viewpoint(division, issue) == division_name(division) \o << NEEDS_ANALYSIS >>

\* the departments division is connected to, in the order of the nodes
connected_divisions(division) ==
  SelectSeq(network.nodes, LAMBDA d : has_edge(network, division, d))

\* the loop of send_internal_message over the targets, from the k-th on
RECURSIVE deliver(_, _, _, _, _)
deliver(division, text, targets, k, B) ==
  IF k > Len(targets) THEN B
  ELSE IF targets[k] \in DOMAIN B.internal_messages
    THEN deliver(division, text, targets, k + 1,
           [B EXCEPT
              !.internal_messages[targets[k]] =
                 Append(@, [sender |-> division, content |-> text,
                            metadata |-> << >>, timestamp |-> B.now]),
              !.now = @ + 1])
    ELSE deliver(division, text, targets, k + 1, B)

\* SubAgent.send_internal_message of department division, on the record B:
\* to target_divisions, or to every connected department if there is none
send_internal_message(division, text, target_divisions, B) ==
  LET stamped == [B EXCEPT !.now = @ + 1]
  IN  IF target_divisions # << >>
        THEN deliver(division, text, target_divisions, 1, stamped)
        ELSE deliver(division, text, connected_divisions(division), 1,
                     stamped)

\* the decision as resolve_conflict words it for the departments
ABOUT == "About "

DECISION_IS == ", the decision: "

decision_notice(issue, text) == << ABOUT, issue, DECISION_IS >> \o text

\* no viewpoint is collected
viewpoints_of_none(issue, conflicting_divisions, k, viewpoints) == viewpoints

\* the loop of resolve_conflict that collects the viewpoints
RECURSIVE collect_viewpoints(_, _, _, _)
collect_viewpoints(issue, conflicting_divisions, k, viewpoints) ==
  IF k > Len(conflicting_divisions) THEN viewpoints
  ELSE LET div_name == conflicting_divisions[k]
       IN  collect_viewpoints(issue, conflicting_divisions, k + 1,
             IF div_name \in DOMAIN pending_tasks
               THEN DictSet(viewpoints, div_name,
                            get_viewpoint(div_name, issue))
               ELSE viewpoints)

\* a notice sent to every department of the list, the executive team too
RECURSIVE notify_everyone(_, _, _, _)
notify_everyone(notice, conflicting_divisions, k, B) ==
  IF k > Len(conflicting_divisions) THEN B
  ELSE LET div_name == conflicting_divisions[k]
       IN  notify_everyone(notice, conflicting_divisions, k + 1,
             IF div_name \in DOMAIN B.pending_tasks
               THEN send_internal_message("executive", notice,
                                          << div_name >>, B)
               ELSE B)

\* the loop of resolve_conflict that notifies the departments
RECURSIVE notify_divisions(_, _, _, _)
notify_divisions(notice, conflicting_divisions, k, B) ==
  IF k > Len(conflicting_divisions) THEN B
  ELSE LET div_name == conflicting_divisions[k]
       IN  notify_divisions(notice, conflicting_divisions, k + 1,
             IF div_name \in DOMAIN B.pending_tasks /\ div_name # "executive"
               THEN send_internal_message("executive", notice,
                                          << div_name >>, B)
               ELSE B)

\* the conflict put to the first department named when there is no
\* executive team
resolve_conflict_at_first_named(issue, conflicting_divisions) ==
  LET task == [id |-> tasks_created + 1,
               type |-> "conflict_resolution",
               issue |-> issue,
               viewpoints |-> << >>,
               timestamp |-> now]
  IN  /\ decision' = NO_RESULT
      /\ pending_tasks' =
           [d \in DOMAIN pending_tasks |->
              IF d = conflicting_divisions[1]
                THEN Append(pending_tasks[d], task)
                ELSE pending_tasks[d]]
      /\ tasks_created' = tasks_created + 1
      /\ now' = now + 1
      /\ UNCHANGED << completed_tasks, task_results, admission,
                      internal_messages >>

\* BrokerAgent.resolve_conflict
resolve_conflict(issue, conflicting_divisions) ==
  IF "executive" \notin DOMAIN pending_tasks
    THEN /\ decision' = NO_RESULT
         /\ UNCHANGED << task_vars, internal_messages >>
    ELSE LET viewpoints ==
               collect_viewpoints(issue, conflicting_divisions, 1, << >>)
             task == [id |-> tasks_created + 1,
                      type |-> "conflict_resolution",
                      issue |-> issue,
                      viewpoints |-> viewpoints,
                      timestamp |-> now]
             queued == [broker_state EXCEPT
                          !.pending_tasks["executive"] = Append(@, task),
                          !.tasks_created = @ + 1,
                          !.now = @ + 1]
             done == run_process_tasks("executive", queued)
             text == DictGet(done.results[1], "message", << >>)
             B == IF done.results # << >>
                    THEN notify_divisions(decision_notice(issue, text),
                                          conflicting_divisions, 1, done)
                    ELSE done
         IN  /\ decision' = IF done.results # << >> THEN text ELSE NO_RESULT
             /\ pending_tasks' = B.pending_tasks
             /\ completed_tasks' = B.completed_tasks
             /\ task_results' = B.results
             /\ tasks_created' = B.tasks_created
             /\ now' = B.now
             /\ internal_messages' = B.internal_messages
             /\ UNCHANGED admission

\* the first loop run over the departments from the last registered to the
\* first
RECURSIVE drain_divisions_from_last(_, _)
drain_divisions_from_last(k, B) ==
  IF k > Len(DIVISIONS) THEN B
  ELSE LET div_name == DIVISIONS[Len(DIVISIONS) + 1 - k]
       IN  drain_divisions_from_last(k + 1,
             IF div_name \in DOMAIN B.pending_tasks
               THEN run_process_tasks(div_name, B)
               ELSE B)

\* the first loop of internal_communication_round: process_tasks of every
\* department, in the order of self.divisions, from the k-th on
RECURSIVE drain_divisions(_, _)
drain_divisions(k, B) ==
  IF k > Len(DIVISIONS) THEN B
  ELSE drain_divisions(k + 1,
         IF DIVISIONS[k] \in DOMAIN B.pending_tasks
           THEN run_process_tasks(DIVISIONS[k], B)
           ELSE B)

\* InternalNetwork.record_communication, on the record B
record_on(source, target, message, B) ==
  [B EXCEPT
     !.history =
        Append(@, [source |-> source, target |-> target,
                   message |-> message,
                   timestamp |-> DictGet(message, "timestamp", "")]),
     !.frequency =
        IF << source, target >> \in DOMAIN @
          THEN [@ EXCEPT ![<< source, target >>] =
                  Min(FREQ_CAP, @ + FREQ_STEP)]
          ELSE @]

\* the messages of one inbox recorded, from the k-th on
RECURSIVE record_inbox(_, _, _, _)
record_inbox(div_name, inbox, k, B) ==
  IF k > Len(inbox) THEN B
  ELSE record_inbox(div_name, inbox, k + 1,
         IF "sender" \in DOMAIN inbox[k]
           THEN record_on(inbox[k].sender, div_name, inbox[k], B)
           ELSE B)

\* the second loop run over the departments from the last registered to the
\* first
RECURSIVE flush_inboxes_from_last(_, _)
flush_inboxes_from_last(k, B) ==
  IF k > Len(DIVISIONS) THEN B
  ELSE LET div_name == DIVISIONS[Len(DIVISIONS) + 1 - k]
       IN  flush_inboxes_from_last(k + 1,
             IF /\ div_name \in DOMAIN B.internal_messages
                /\ B.internal_messages[div_name] # << >>
               THEN [record_inbox(div_name, B.internal_messages[div_name],
                                  1, B)
                       EXCEPT !.internal_messages[div_name] = << >>]
               ELSE B)

\* the second loop of internal_communication_round: every inbox recorded
\* and emptied, from the k-th department on
RECURSIVE flush_inboxes(_, _)
flush_inboxes(k, B) ==
  IF k > Len(DIVISIONS) THEN B
  ELSE LET div_name == DIVISIONS[k]
       IN  flush_inboxes(k + 1,
             IF /\ div_name \in DOMAIN B.internal_messages
                /\ B.internal_messages[div_name] # << >>
               THEN [record_inbox(div_name, B.internal_messages[div_name],
                                  1, B)
                       EXCEPT !.internal_messages[div_name] = << >>]
               ELSE B)

\* BrokerAgent.internal_communication_round
internal_communication_round ==
  LET B == flush_inboxes(1, drain_divisions(1, broker_state))
  IN  /\ pending_tasks' = B.pending_tasks
      /\ completed_tasks' = B.completed_tasks
      /\ task_results' = B.results
      /\ now' = B.now
      /\ internal_messages' = B.internal_messages
      /\ communication_history' = B.history
      /\ communication_frequency' = B.frequency
      /\ UNCHANGED << admission, tasks_created, network,
                      communication_priority, path_result, central_result >>

(***************************************************************************)
(* The specification of the broker: the seven departments with the default *)
(* admission hook and handler, their network as built; messages arrive,    *)
(* conflicts are put to the executive team, tasks are added to departments *)
(* and processed, and communication rounds run, in any order.              *)
(***************************************************************************)
\* message texts: no keyword; a keyword of investment_banking; one of
\* investment_banking overlapping one of sales_trading; one of executive
\* (U+516C U+53F8) next to one of investment_banking
BrokerTexts ==
  { << "u573a" >>,
    << "u4e0a", "u5e02" >>,
    << "u4e0a", "u5e02", "u573a" >>,
    << "u516c", "u53f8", "u4e0a", "u5e02" >> }

Issues == { "fee split" }

\* lists of conflicting departments: two departments, the executive team
\* among them, a department named twice, a name that is no department
ConflictLists ==
  { << "investment_banking", "sales_trading" >>,
    << "sales_trading", "executive" >>,
    << "research", "research" >>,
    << "research", "trading_desk" >> }

\* the departments tasks are added to from outside
Submitters == { "investment_banking", "executive" }

BrokerInit ==
  /\ BrokerNetInit
  /\ ClassifierIdle
  /\ pending_tasks = [d \in Range(DIVISIONS) |-> << >>]
  /\ completed_tasks = [d \in Range(DIVISIONS) |-> << >>]
  /\ task_results = << >>
  /\ admission =
       [d \in Range(DIVISIONS) |-> [overridden |-> FALSE, rejects |-> {}]]
  /\ tasks_created = 0
  /\ now = 0
  /\ BrokerIdle

BrokerNext ==
  \/ \E text \in BrokerTexts :
       /\ tasks_created + Len(determine_target_departments(text))
            <= MaxBrokerTasks
       /\ process_message(text)
       /\ last_call' = Call("process_message", "", "", FALSE, 0)
       /\ UNCHANGED prev_call
  \/ \E issue \in Issues, conflicting_divisions \in ConflictLists :
       /\ tasks_created < MaxBrokerTasks
       /\ resolve_conflict(issue, conflicting_divisions)
       /\ last_call' =
            Call("resolve_conflict", issue, conflicting_divisions, FALSE, 0)
       /\ UNCHANGED << prev_call, net_vars, classifier_vars, final_response,
                       responses, trading_vars, firm_vars >>
  \/ /\ internal_communication_round
     /\ last_call' = Call("internal_communication_round", "", "", FALSE, 0)
     /\ UNCHANGED << prev_call, classifier_vars, final_response,
                     responses, decision, trading_vars, firm_vars >>
  \/ \E agent \in Submitters, type \in TaskTypes :
       /\ tasks_created < MaxBrokerTasks
       /\ tasks_created' = tasks_created + 1
       /\ add_task(agent, [id |-> tasks_created + 1, type |-> type])
       /\ last_call' = Call("add_task", agent, "", FALSE, 0)
       /\ UNCHANGED << prev_call, net_vars, classifier_vars, broker_vars,
                       trading_vars, firm_vars >>
  \/ \E agent \in Submitters :
       /\ process_tasks(agent)
       /\ last_call' = Call("process_tasks", agent, "", FALSE, 0)
       /\ UNCHANGED << tasks_created, prev_call, net_vars, classifier_vars,
                       broker_vars, trading_vars, firm_vars >>

SpecBroker == BrokerInit /\ [][BrokerNext]_vars

(***************************************************************************)
(* Properties of the broker (checked under SpecBroker).                    *)
(***************************************************************************)
PendingTasks(d) == Range(pending_tasks[d])

CompletedTasks(d) == { entry.task : entry \in Range(completed_tasks[d]) }

MEDIUM_POSITION == 10000

HIGH_POSITION == 50000

Abs(x) == IF x < 0 THEN -x ELSE x

\* the quantity added whatever the side
position_after_adding(positions, order) ==
  DictGet(positions, DictGet(order, "symbol", ""), 0)
    + DictGet(order, "quantity", 0)

\* the position of an order's symbol after the order
position_after(positions, order) ==
  LET current_position == DictGet(positions, DictGet(order, "symbol", ""), 0)
      quantity == DictGet(order, "quantity", 0)
  IN  IF DictGet(order, "side", "buy") = "buy"
        THEN current_position + quantity
        ELSE current_position - quantity

\* the risk by the size of the new position alone
check_trade_risk_by_size(positions, order) ==
  LET current_position == DictGet(positions, DictGet(order, "symbol", ""), 0)
      new_position == position_after(positions, order)
      by_size == IF Abs(new_position) > HIGH_POSITION THEN "high"
                 ELSE IF Abs(new_position) > MEDIUM_POSITION THEN "medium"
                 ELSE "low"
  IN  [risk_level |-> by_size,
       reason |-> IF by_size = "high" THEN "position too large"
                  ELSE IF by_size = "medium" THEN "position large"
                  ELSE "",
       current_position |-> current_position,
       new_position |-> new_position,
       change_percentage |->
         IF current_position = 0 THEN << 0, 1 >>
         ELSE << Abs(new_position - current_position),
                 Abs(current_position) >>]

\* SalesTradingAgent._check_trade_risk; abs(new / current - 1) > 0.5 is
\* 2 * |new - current| > |current|, and change_percentage the fraction
\* |new - current| / |current|
check_trade_risk(positions, order) ==
  LET current_position == DictGet(positions, DictGet(order, "symbol", ""), 0)
      new_position == position_after(positions, order)
      by_size == IF Abs(new_position) > HIGH_POSITION THEN "high"
                 ELSE IF Abs(new_position) > MEDIUM_POSITION THEN "medium"
                 ELSE "low"
      by_change == /\ current_position # 0
                   /\ 2 * Abs(new_position - current_position)
                        > Abs(current_position)
  IN  [risk_level |-> IF by_change THEN "high" ELSE by_size,
       reason |-> IF by_change THEN "position change above 50%"
                  ELSE IF by_size = "high" THEN "position too large"
                  ELSE IF by_size = "medium" THEN "position large"
                  ELSE "",
       current_position |-> current_position,
       new_position |-> new_position,
       change_percentage |->
         IF current_position = 0 THEN << 0, 1 >>
         ELSE << Abs(new_position - current_position),
                 Abs(current_position) >>]

\* SalesTradingAgent._update_position
update_position(positions, order) ==
  DictSet(positions, DictGet(order, "symbol", ""),
          position_after(positions, order))

\* SalesTradingAgent._validate_order
validate_order(order) ==
  IF DictGet(order, "symbol", "") = ""
    THEN [valid |-> FALSE, reason |-> "symbol missing"]
  ELSE IF DictGet(order, "quantity", 0) = 0
    THEN [valid |-> FALSE, reason |-> "quantity missing"]
  ELSE IF DictGet(order, "quantity", 0) <= 0
    THEN [valid |-> FALSE, reason |-> "quantity must be positive"]
  ELSE IF DictGet(order, "type", "") = "limit" /\ "price" \notin DOMAIN order
    THEN [valid |-> FALSE, reason |-> "limit order needs a price"]
  ELSE IF DictGet(order, "side", "") \notin {"buy", "sell"}
    THEN [valid |-> FALSE, reason |-> "side must be buy or sell"]
  ELSE [valid |-> TRUE]

(***************************************************************************)
(* The specification of the trading desk's task list.  SalesTradingAgent   *)
(* defines process_task and its handlers, and neither _process_task nor    *)
(* _can_process_task: its process_tasks is the one of BrokerSubAgent and   *)
(* runs BrokerSubAgent's hook and handler.  Tasks of the desk's types are  *)
(* added and the list processed.                                           *)
(***************************************************************************)
TRADING_DESK == "sales_trading"

\* orders: small and large, both sides, and one without a quantity; orders
\* without a symbol, with a negative quantity, with a side that is neither
\* buy nor sell, and a limit order without a price
TradeOrders ==
  { [type |-> "market", symbol |-> "AAA", quantity |-> q, side |-> sd] :
      q \in {0, 100, 60000}, sd \in {"buy", "sell"} }
    \cup { [type |-> "market", symbol |-> "", quantity |-> 100,
             side |-> "buy"],
           [type |-> "market", symbol |-> "AAA", quantity |-> -5,
             side |-> "buy"],
           [type |-> "market", symbol |-> "AAA", quantity |-> 100,
             side |-> "hold"],
           [type |-> "limit", symbol |-> "AAA", quantity |-> 100,
             side |-> "sell"] }

\* market data: no security; a price up or down by 10%; a volume up by 150%
\* (price_change in hundredths, volume_change in hundredths)
MarketData ==
  { [securities |-> << >>],
    [securities |->
       << [symbol |-> "AAA", price_change |-> 10, volume_change |-> 0] >>],
    [securities |->
       << [symbol |-> "AAA", price_change |-> -10, volume_change |-> 0] >>],
    [securities |->
       << [symbol |-> "AAA", price_change |-> 0, volume_change |-> 150] >>] }

\* the market_making and market_update tasks of the desk with the given id
MarketTasks(id) ==
  { [id |-> id, type |-> "market_making", security |-> [symbol |-> "AAA"],
     details |-> [bid |-> 99, ask |-> 101]] }
    \cup { [id |-> id, type |-> "market_update", content |-> "update",
             data |-> d] : d \in MarketData }

\* the tasks of the desk with the given id: every order to execute, the
\* large ones forced too; every order to buy as a client's order; a task of
\* another type
TradingTasks(id) ==
  { [id |-> id, type |-> "execute_trade", details |-> o] : o \in TradeOrders }
    \cup { [id |-> id, type |-> "execute_trade", details |-> o,
             force_execution |-> TRUE] :
             o \in { t \in TradeOrders : t.quantity = 60000 } }
    \cup { [id |-> id, type |-> "client_order", client |-> "client",
             details |-> o] :
             o \in { t \in TradeOrders : t.side # "sell" } }
    \cup { [id |-> id, type |-> "client_request"] }

(***************************************************************************)
(* SalesTradingAgent.process_task, called on the agent itself: the type    *)
(* dispatch and the handlers.  self.get_current_time is defined by no      *)
(* class of the repository (BrokerSubAgent has no base class): a statement *)
(* that evaluates it raises AttributeError and the handler ends there.     *)
(***************************************************************************)
\* the value a call returned
Returned(result) == [returned |-> TRUE, raised |-> "", result |-> result]

\* the exception a call ended with, and the method that raised it
Raised(exception, method) ==
  [returned |-> FALSE, raised |-> exception, at |-> method]

\* the call neither returns nor changes what the desk holds
raises(exception, method) ==
  /\ outcome' = Raised(exception, method)
  /\ UNCHANGED << trading_positions, client_orders, market_making_securities,
                  pending_tasks, internal_messages >>

\* _handle_execute_trade: the dict literal of the order evaluates
\* self.get_current_time() for its timestamp, before client_orders.append,
\* the risk check and the execution
handle_execute_trade(task) == raises("AttributeError", "_handle_execute_trade")

\* _handle_market_making: the dict literal of the activity evaluates
\* self.get_current_time() for its start_time, before the append
handle_market_making(task) ==
  raises("AttributeError", "_handle_market_making")

\* _handle_client_order: the dict literal of the order evaluates
\* self.get_current_time() for its timestamp, before client_orders.append,
\* the validation and add_task
handle_client_order(task) == raises("AttributeError", "_handle_client_order")

\* the price or the volume of the security moved enough to act:
\* abs(price_change) > 0.05, volume_change > 1.0
price_moved(security) == Abs(DictGet(security, "price_change", 0)) > 5

volume_moved(security) == DictGet(security, "volume_change", 0) > 100

\* the entry of affected_positions for a security whose price moved
affected_position(positions, security) ==
  LET held == positions[security.symbol]
      price_change == DictGet(security, "price_change", 0)
  IN  [symbol |-> security.symbol,
       current_position |-> held,
       recommended_action |->
         IF \/ (price_change < 0 /\ held > 0)
            \/ (price_change > 0 /\ held < 0)
           THEN "reduce" ELSE "hold"]

\* the symbols of the securities listed so far
listed_symbols(securities) ==
  { DictGet(securities[i], "symbol", "None") : i \in 1..Len(securities) }

\* the body of the loop with the volume test listing the security whether
\* or not its symbol is listed already
analyze_security_without_lookup(positions, analysis, security) ==
  LET symbol == DictGet(security, "symbol", "None")
      priced ==
        IF price_moved(security)
          THEN [analysis EXCEPT
                  !.market_trend =
                     IF DictGet(security, "price_change", 0) > 0
                       THEN "up" ELSE "down",
                  !.volatility = "high",
                  !.action_required = TRUE,
                  !.adjust_market_making = TRUE,
                  !.affected_securities = Append(@, security),
                  !.adjust_positions = @ \/ symbol \in DOMAIN positions,
                  !.affected_positions =
                     IF symbol \in DOMAIN positions
                       THEN Append(@, affected_position(positions, security))
                       ELSE @]
          ELSE analysis
  IN  IF volume_moved(security)
        THEN [priced EXCEPT
                !.liquidity = "high",
                !.action_required = TRUE,
                !.adjust_market_making = TRUE,
                !.affected_securities = Append(@, security)]
        ELSE priced

\* the body of the loop of _analyze_market_data, for one security
analyze_security(positions, analysis, security) ==
  LET symbol == DictGet(security, "symbol", "None")
      priced ==
        IF price_moved(security)
          THEN [analysis EXCEPT
                  !.market_trend =
                     IF DictGet(security, "price_change", 0) > 0
                       THEN "up" ELSE "down",
                  !.volatility = "high",
                  !.action_required = TRUE,
                  !.adjust_market_making = TRUE,
                  !.affected_securities = Append(@, security),
                  !.adjust_positions = @ \/ symbol \in DOMAIN positions,
                  !.affected_positions =
                     IF symbol \in DOMAIN positions
                       THEN Append(@, affected_position(positions, security))
                       ELSE @]
          ELSE analysis
  IN  IF volume_moved(security)
        THEN IF symbol \notin listed_symbols(priced.affected_securities)
               THEN [priced EXCEPT
                       !.liquidity = "high",
                       !.action_required = TRUE,
                       !.adjust_market_making = TRUE,
                       !.affected_securities = Append(@, security)]
               ELSE [priced EXCEPT
                       !.liquidity = "high",
                       !.action_required = TRUE]
        ELSE priced

\* the loop of _analyze_market_data from the k-th security on
RECURSIVE analyze_securities(_, _, _, _)
analyze_securities(positions, analysis, securities, k) ==
  IF k > Len(securities) THEN analysis
  ELSE analyze_securities(positions,
         analyze_security(positions, analysis, securities[k]),
         securities, k + 1)

\* _analyze_market_data
analyze_market_data(positions, market_data) ==
  LET analysis ==
        analyze_securities(positions,
          [market_trend |-> "stable",
           volatility |-> "low",
           liquidity |-> "normal",
           action_required |-> FALSE,
           adjust_market_making |-> FALSE,
           adjust_positions |-> FALSE,
           affected_securities |-> << >>,
           affected_positions |-> << >>],
          DictGet(market_data, "securities", << >>), 1)
  IN  IF analysis.action_required /\ analysis.adjust_market_making
        THEN DictSet(analysis, "recommended_action",
               [type |-> "adjust_market_making",
                securities |-> analysis.affected_securities])
      ELSE IF analysis.action_required /\ analysis.adjust_positions
        THEN DictSet(analysis, "recommended_action",
               [type |-> "adjust_positions",
                positions |-> analysis.affected_positions])
      ELSE analysis

Max(a, b) == IF a >= b THEN a ELSE b

\* the spread _adjust_market_making sets for the security,
\* max(0.01, abs(price * 0.002 * (1 + abs(price_change) * 10))), in
\* ten-thousandths; price is in whole units, price_change in hundredths
spread_of(security) ==
  Max(100, Abs(2 * DictGet(security, "price", 0)
                 * (10 + Abs(DictGet(security, "price_change", 0)))))

\* the quotes the loop of _adjust_market_making stops at: those of the
\* symbol that are active
quoted(quotes, security) ==
  { i \in 1..Len(quotes) :
      /\ quotes[i].symbol = DictGet(security, "symbol", "None")
      /\ quotes[i].status = "active" }

\* the quotes of the symbol, whatever their status
quoted_any_status(quotes, security) ==
  { i \in 1..Len(quotes) :
      quotes[i].symbol = DictGet(security, "symbol", "None") }

\* _adjust_market_making rewriting the first quote of the symbol, active or
\* not
adjust_market_making_any_status(quotes, security) ==
  IF quoted_any_status(quotes, security) = {} THEN quotes
  ELSE LET i == CHOOSE i \in quoted_any_status(quotes, security) :
                  \A j \in quoted_any_status(quotes, security) : i <= j
           price == 10000 * DictGet(security, "price", 0)
       IN  [quotes EXCEPT
              ![i] = DictSet(DictSet(@, "bid",
                                     price - spread_of(security) \div 2),
                             "ask", price + spread_of(security) \div 2)]

\* _adjust_market_making reaches self.get_current_time() for the security:
\* the desk makes an active market in it
adjust_market_making_raises(quotes, security) ==
  quoted(quotes, security) # {}

\* the quotes as _adjust_market_making leaves them: bid and ask of the first
\* active quote of the symbol are rewritten (in ten-thousandths) before
\* last_update is; without such a quote nothing is written
adjust_market_making(quotes, security) ==
  IF quoted(quotes, security) = {} THEN quotes
  ELSE LET i == CHOOSE i \in quoted(quotes, security) :
                  \A j \in quoted(quotes, security) : i <= j
           price == 10000 * DictGet(security, "price", 0)
       IN  [quotes EXCEPT
              ![i] = DictSet(DictSet(@, "bid",
                                     price - spread_of(security) \div 2),
                             "ask", price + spread_of(security) \div 2)]

\* _adjust_position reaches self.get_current_time() for a position: it is
\* to be reduced and abs(int(current_position * 0.2)) > 0
adjust_position_raises(position_info) ==
  /\ DictGet(position_info, "recommended_action", "hold") = "reduce"
  /\ DictGet(position_info, "current_position", 0) # 0
  /\ Abs(DictGet(position_info, "current_position", 0)) \div 5 > 0

\* the loop over affected_securities from the k-th on: st holds the quotes
\* and whether _adjust_market_making has raised
RECURSIVE adjust_quotes(_, _, _)
adjust_quotes(st, securities, k) ==
  IF k > Len(securities) \/ st.raised THEN st
  ELSE adjust_quotes(
         [quotes |-> adjust_market_making(st.quotes, securities[k]),
          raised |-> adjust_market_making_raises(st.quotes, securities[k])],
         securities, k + 1)

\* _adjust_market_making raises for one of the affected securities
quotes_to_adjust(securities, analysis) ==
  adjust_quotes([quotes |-> securities, raised |-> FALSE],
                analysis.affected_securities, 1).raised

\* _adjust_position raises for one of the affected positions
positions_to_adjust(analysis) ==
  \E i \in 1..Len(analysis.affected_positions) :
    adjust_position_raises(analysis.affected_positions[i])

\* the quotes when the loop over affected_securities has ended
quotes_rewritten(securities, analysis) ==
  adjust_quotes([quotes |-> securities, raised |-> FALSE],
                analysis.affected_securities, 1).quotes

\* _handle_market_update
handle_market_update(task) ==
  LET analysis ==
        analyze_market_data(trading_positions, DictGet(task, "data", << >>))
      response ==
        [message |-> << "analysed market update: ",
                        DictGet(task, "content", "") >>,
         analysis |-> analysis]
  IN  IF analysis.adjust_market_making
         /\ quotes_to_adjust(market_making_securities, analysis)
        THEN /\ outcome' = Raised("AttributeError", "_adjust_market_making")
             /\ market_making_securities' =
                  quotes_rewritten(market_making_securities, analysis)
             /\ UNCHANGED << trading_positions, client_orders,
                             pending_tasks, internal_messages >>
      ELSE IF analysis.adjust_positions /\ positions_to_adjust(analysis)
        THEN raises("AttributeError", "_adjust_position")
      ELSE /\ outcome' =
                Returned(IF analysis.action_required
                           THEN DictSet(response, "action",
                                  DictGet(analysis, "recommended_action",
                                          << >>))
                           ELSE response)
           /\ UNCHANGED << trading_positions, client_orders,
                           market_making_securities, pending_tasks,
                           internal_messages >>

\* SalesTradingAgent.process_task: the handler of the task's type; for any
\* other type super().process_task, which BrokerSubAgent does not have
SalesTradingAgent_process_task(task) ==
  LET task_type == DictGet(task, "type", "")
  IN  /\ CASE task_type = "execute_trade" -> handle_execute_trade(task)
            [] task_type = "market_making" -> handle_market_making(task)
            [] task_type = "client_order" -> handle_client_order(task)
            [] task_type = "market_update" -> handle_market_update(task)
            [] OTHER -> raises("AttributeError", "process_task")
      /\ UNCHANGED << completed_tasks, task_results, admission,
                      tasks_created, now >>

TradingInit ==
  /\ NetInit
  /\ ClassifierIdle
  /\ BrokerIdle
  /\ pending_tasks = [d \in {TRADING_DESK} |-> << >>]
  /\ completed_tasks = [d \in {TRADING_DESK} |-> << >>]
  /\ task_results = << >>
  /\ admission =
       [d \in {TRADING_DESK} |-> [overridden |-> FALSE, rejects |-> {}]]
  /\ tasks_created = 0
  /\ now = 0

TradingNext ==
  \/ \E task \in TradingTasks(tasks_created + 1)
                   \cup MarketTasks(tasks_created + 1) :
       /\ tasks_created < MaxTradingTasks
       /\ tasks_created' = tasks_created + 1
       /\ add_task(TRADING_DESK, task)
       /\ last_call' = Call("add_task", TRADING_DESK, "", FALSE, 0)
       /\ UNCHANGED << prev_call, net_vars, classifier_vars, broker_vars,
                       trading_vars, firm_vars >>
  \/ /\ process_tasks(TRADING_DESK)
     /\ last_call' = Call("process_tasks", TRADING_DESK, "", FALSE, 0)
     /\ UNCHANGED << tasks_created, prev_call, net_vars, classifier_vars,
                     broker_vars, trading_vars, firm_vars >>
  \/ \E task \in TradingTasks(0) \cup MarketTasks(0) :
       /\ SalesTradingAgent_process_task(task)
       /\ last_call' = Call("process_task", TRADING_DESK, task, FALSE, 0)
       /\ UNCHANGED << prev_call, net_vars, classifier_vars, final_response,
                       responses, decision, market_simulation, firm_vars >>

SpecTrading == TradingInit /\ [][TradingNext]_vars

\* the order _handle_execute_trade and _handle_client_order record for a
\* task: the details with the defaults of the missing keys
order_of(task) ==
  LET details == DictGet(task, "details", << >>)
      order == [type |-> DictGet(details, "type", "market"),
                symbol |-> DictGet(details, "symbol", ""),
                quantity |-> DictGet(details, "quantity", 0),
                side |-> DictGet(details, "side", "buy")]
  IN  IF "price" \in DOMAIN details
        THEN DictSet(order, "price", details["price"])
        ELSE order

\* a pending task of the trading desk of the given type
PendingOfType(type) ==
  { task \in PendingTasks(TRADING_DESK) : task.type = type }

\* the task needs approval: its order is of high risk and it is not forced
NeedsApproval(task) ==
  /\ check_trade_risk(trading_positions, order_of(task)).risk_level = "high"
  /\ ~ DictGet(task, "force_execution", FALSE)

\* C13: when process_tasks of the trading desk handles a valid client
\* order, the execute_trade follow-up for that order is among the desk's
\* pending tasks when the call returns.
C13_FollowUpIsPendingAfterCall ==
  [][ last_call'.op = "process_tasks" =>
        \A task \in PendingOfType("client_order") :
          validate_order(order_of(task)).valid =>
            \E next \in PendingTasks(TRADING_DESK)' :
              /\ next.type = "execute_trade"
              /\ order_of(next) = order_of(task) ]_vars

\* C14: process_tasks of the trading desk leaves a task with a high-risk
\* order that is not approved in the pending list and out of the completed
\* log.
C14_HighRiskOrderStaysPending ==
  [][ last_call'.op = "process_tasks" =>
        \A task \in PendingOfType("execute_trade") :
          NeedsApproval(task) =>
            /\ task \in PendingTasks(TRADING_DESK)'
            /\ task \notin CompletedTasks(TRADING_DESK)' ]_vars

\* C15: when process_tasks of the trading desk handles an execute_trade
\* task of low risk with a positive quantity, the position ledger changes.
C15_LowRiskTradeChangesLedger ==
  [][ last_call'.op = "process_tasks" =>
        \A task \in PendingOfType("execute_trade") :
          ( /\ admits(TRADING_DESK, task)
            /\ order_of(task).quantity > 0
            /\ check_trade_risk(trading_positions, order_of(task)).risk_level
                 = "low" ) =>
            trading_positions' # trading_positions ]_vars

(***************************************************************************)
(* The specification of the reply of process_message: the part of          *)
(* process_message after its loop and _integrate_responses, applied to     *)
(* every collection of results the loop can leave.  department_responses   *)
(* is a dict: its departments are distinct; it keeps the order in which    *)
(* they were added, and is empty when the admission hook of every target   *)
(* department turned the task down.  A response is the result a department *)
(* gives the message's task.                                               *)
(***************************************************************************)
response_of(dept, id) ==
  [dept |-> dept,
   response |-> process_task(dept, [id |-> id, type |-> "message_processing"])]

ResponseLists ==
  UNION { { [i \in 1..n |-> response_of(depts[i], i)] :
              depts \in { f \in [1..n -> Range(DIVISIONS)] :
                            \A i, j \in 1..n : f[i] = f[j] => i = j } } :
          n \in 0..MaxResponders }

RepliesInit ==
  /\ NetInit
  /\ ClassifierIdle
  /\ TasksIdle
  /\ internal_messages = [d \in Range(DIVISIONS) |-> << >>]
  /\ final_response = << >>
  /\ responses \in ResponseLists
  /\ decision = NO_RESULT
  /\ TradingIdle

RepliesNext ==
  /\ last_call = NoCall
  /\ final_response' = choose_response(responses)
  /\ last_call' = Call("choose_response", "", "", FALSE, 0)
  /\ UNCHANGED << prev_call, net_vars, classifier_vars, task_vars,
                  internal_messages, responses, decision, trading_vars, firm_vars >>

SpecReplies == RepliesInit /\ [][RepliesNext]_vars

\* the reply has been computed from the collected responses
Replied == last_call.op = "choose_response"

Responders == { responses[i].dept : i \in 1..Len(responses) }

MessageOf(i) == responses[i].response.message

\* C16: when the executive team is one of two or more responders, wherever
\* it stands among them, the reply is the executive team's message and no
\* other responder's message occurs in it.
C16_ExecutiveMessageWins ==
  (Replied /\ Len(responses) >= 2 /\ "executive" \in Responders) =>
    \A i \in 1..Len(responses) :
      IF responses[i].dept = "executive"
        THEN final_response = MessageOf(i)
        ELSE ~ IsSubstring(MessageOf(i), final_response)

\* the executive team answered last of three and its message is the reply
C16_Witness ==
  /\ Replied
  /\ Len(responses) = 3
  /\ responses[3].dept = "executive"
  /\ final_response = MessageOf(3)

PartOf(k) ==
  division_name(responses[k].dept) \o << OPINION >> \o MessageOf(k)

\* the place in the integrated reply before which the k-th part starts:
\* after the two pieces of the preamble, the parts before it and their
\* separators
RECURSIVE PartOffset(_)
PartOffset(k) ==
  IF k = 1 THEN 2 ELSE PartOffset(k - 1) + Len(PartOf(k - 1)) + 1

\* C18: when two or more departments respond and the executive team is not
\* among them, the reply is the preamble, then one part "label opinion:
\* message" for each responder in the order of the responders, a blank
\* line between two parts, and nothing else.
C18_IntegratedReplyListsEveryResponderInOrder ==
  (Replied /\ Len(responses) >= 2 /\ "executive" \notin Responders) =>
    LET n == Len(responses)
    IN  /\ Len(final_response) = PartOffset(n) + Len(PartOf(n))
        /\ SubSeq(final_response, 1, 2) = << BROKER_NAME, INTEGRATED_REPLY >>
        /\ \A k \in 1..n :
             SubSeq(final_response, PartOffset(k) + 1,
                    PartOffset(k) + Len(PartOf(k))) = PartOf(k)
        /\ \A k \in 1..(n - 1) :
             final_response[PartOffset(k + 1)] = PART_SEPARATOR

\* three departments responded, in an order that is not the order of
\* DIVISIONS, and the reply has its three parts
C18_Witness ==
  /\ Replied
  /\ Len(responses) = 3
  /\ responses[1].dept = "research"
  /\ responses[2].dept = "investment_banking"
  /\ responses[3].dept = "sales_trading"
  /\ Len(final_response) = 22
  /\ SubSeq(final_response, 10, 15) = PartOf(2)

(***************************************************************************)
(* resolve_conflict.                                                       *)
(***************************************************************************)
\* the tasks a department holds, pending or completed
TasksAt(d) == PendingTasks(d) \cup CompletedTasks(d)

\* the number of times name occurs in the list
Occurrences(name, list) ==
  Cardinality({ i \in 1..Len(list) : list[i] = name })

\* C19: resolve_conflict creates one task, of type conflict_resolution,
\* for the issue, with the viewpoint of every department named in the list
\* and of nothing else; the task is new at the executive team only, where
\* it is completed and not pending after the call; the pending and the
\* completed tasks of every other department are as before.
C19_OneMediationTaskAtExecutiveOnly ==
  [][ last_call'.op = "resolve_conflict" =>
        LET issue == last_call'.source
            named == Range(last_call'.target) \cap DOMAIN pending_tasks
            created == TasksAt("executive")' \ TasksAt("executive")
        IN  /\ \A d \in DOMAIN pending_tasks \ {"executive"} :
                 /\ pending_tasks'[d] = pending_tasks[d]
                 /\ completed_tasks'[d] = completed_tasks[d]
            /\ Cardinality(created) = 1
            /\ \A task \in created :
                 /\ task.type = "conflict_resolution"
                 /\ task.issue = issue
                 /\ DOMAIN task.viewpoints = named
                 /\ \A d \in named :
                      task.viewpoints[d] = get_viewpoint(d, issue)
                 /\ task \in CompletedTasks("executive")'
                 /\ task \notin PendingTasks("executive")' ]_vars

\* a conflict between investment banking and sales and trading has been put
\* to the executive team while investment banking had a task pending
C19_Witness ==
  /\ last_call.op = "resolve_conflict"
  /\ last_call.target = << "investment_banking", "sales_trading" >>
  /\ pending_tasks["investment_banking"] # << >>
  /\ pending_tasks["executive"] = << >>
  /\ \E task \in CompletedTasks("executive") :
       /\ task.type = "conflict_resolution"
       /\ DOMAIN task.viewpoints = {"investment_banking", "sales_trading"}

\* the messages a resolve_conflict step has appended to the inbox of d
Delivered(d) ==
  SubSeq(internal_messages'[d], Len(internal_messages[d]) + 1,
         Len(internal_messages'[d]))

\* the step keeps the inbox of d and appends n messages of the executive
\* team that carry the decision
ReceivesDecision(d, n) ==
  /\ Len(internal_messages'[d]) = Len(internal_messages[d]) + n
  /\ SubSeq(internal_messages'[d], 1, Len(internal_messages[d]))
       = internal_messages[d]
  /\ \A i \in 1..n :
       /\ Delivered(d)[i].sender = "executive"
       /\ IsSubstring(decision', Delivered(d)[i].content)

\* C20 as stated: when the executive team gives a result, every department
\* of the conflicting list receives exactly one internal message with the
\* decision, no other department receives one, and the decision is
\* returned.
C20_EveryConflictingDepartmentNotifiedOnce ==
  [][ (last_call'.op = "resolve_conflict" /\ decision' # NO_RESULT) =>
        /\ decision' = task_results'[1].message
        /\ \A d \in DOMAIN internal_messages :
             ReceivesDecision(d, IF d \in Range(last_call'.target)
                                   THEN 1 ELSE 0) ]_vars

\* C20, amended: when the executive team gives a result, every department
\* named in the conflicting list other than the executive team receives one
\* internal message of the executive team for each time it is named, its
\* content the issue and the decision; the inbox of the executive team and
\* of every department not named is unchanged; the decision is returned.
C20_ConflictingDepartmentsButExecutiveNotified ==
  [][ (last_call'.op = "resolve_conflict" /\ decision' # NO_RESULT) =>
        /\ decision' = task_results'[1].message
        /\ \A d \in DOMAIN internal_messages :
             /\ ReceivesDecision(d, IF d = "executive" THEN 0
                                    ELSE Occurrences(d, last_call'.target))
             /\ \A i \in 1..Len(Delivered(d)) :
                  Delivered(d)[i].content
                    = decision_notice(last_call'.source, decision') ]_vars

\* a conflict between sales and trading and the executive team has been
\* decided: sales and trading holds the decision, the executive team holds
\* no message
C20_Witness ==
  /\ last_call.op = "resolve_conflict"
  /\ last_call.target = << "sales_trading", "executive" >>
  /\ decision # NO_RESULT
  /\ Len(internal_messages["sales_trading"]) = 1
  /\ IsSubstring(decision, internal_messages["sales_trading"][1].content)
  /\ internal_messages["executive"] = << >>

(***************************************************************************)
(* The specification of conflict resolution with and without an executive  *)
(* team.  self.divisions is a dict the broker fills at construction and    *)
(* resolve_conflict looks the executive team up in; the executive team's   *)
(* admission hook is the one of the base class or one that turns           *)
(* conflict_resolution tasks down.                                         *)
(***************************************************************************)
\* the departments in self.divisions: all seven, or all but the executive
\* team
DivisionSets == { Range(DIVISIONS), Range(DIVISIONS) \ {"executive"} }

\* the admission hooks of the executive team
ExecutiveHooks ==
  { [overridden |-> FALSE, rejects |-> {}],
    [overridden |-> TRUE, rejects |-> {"conflict_resolution"}] }

ConflictInit ==
  /\ BrokerNetInit
  /\ ClassifierIdle
  /\ TradingIdle
  /\ final_response = << >>
  /\ responses = << >>
  /\ decision = NO_RESULT
  /\ task_results = << >>
  /\ tasks_created = 0
  /\ now = 0
  /\ \E divisions \in DivisionSets :
       /\ pending_tasks = [d \in divisions |-> << >>]
       /\ completed_tasks = [d \in divisions |-> << >>]
       /\ internal_messages = [d \in divisions |-> << >>]
       /\ \E hook \in ExecutiveHooks :
            admission =
              [d \in divisions |->
                 IF d = "executive" THEN hook
                 ELSE [overridden |-> FALSE, rejects |-> {}]]

ConflictNext ==
  \/ \E issue \in Issues, conflicting_divisions \in ConflictLists :
       /\ tasks_created < MaxBrokerTasks
       /\ resolve_conflict(issue, conflicting_divisions)
       /\ last_call' =
            Call("resolve_conflict", issue, conflicting_divisions, FALSE, 0)
       /\ UNCHANGED << prev_call, net_vars, classifier_vars, final_response,
                       responses, trading_vars, firm_vars >>
  \/ /\ internal_communication_round
     /\ last_call' = Call("internal_communication_round", "", "", FALSE, 0)
     /\ UNCHANGED << prev_call, classifier_vars, final_response,
                     responses, decision, trading_vars, firm_vars >>
  \/ \E agent \in DOMAIN pending_tasks, type \in TaskTypes :
       /\ agent \in Submitters \cup {"sales_trading"}
       /\ tasks_created < MaxBrokerTasks
       /\ tasks_created' = tasks_created + 1
       /\ add_task(agent, [id |-> tasks_created + 1, type |-> type])
       /\ last_call' = Call("add_task", agent, "", FALSE, 0)
       /\ UNCHANGED << prev_call, net_vars, classifier_vars, broker_vars,
                       trading_vars, firm_vars >>
  \/ \E agent \in DOMAIN pending_tasks :
       /\ process_tasks(agent)
       /\ last_call' = Call("process_tasks", agent, "", FALSE, 0)
       /\ UNCHANGED << tasks_created, prev_call, net_vars, classifier_vars,
                       broker_vars, trading_vars, firm_vars >>

SpecConflict == ConflictInit /\ [][ConflictNext]_vars

\* C21: resolve_conflict without an executive team returns no decision and
\* changes no task list, no inbox, no count of tasks created and nothing of
\* the network; with an executive team whose process_tasks gives no result
\* it returns no decision too.
C21_NoExecutiveOrNoResultGivesNoDecision ==
  [][ last_call'.op = "resolve_conflict" =>
        /\ "executive" \notin DOMAIN pending_tasks =>
             /\ decision' = NO_RESULT
             /\ UNCHANGED << pending_tasks, completed_tasks,
                             internal_messages, tasks_created, now,
                             net_vars >>
        /\ ("executive" \in DOMAIN pending_tasks /\ task_results' = << >>)
             => decision' = NO_RESULT ]_vars

\* a conflict was put to a broker without an executive team while
\* investment banking had a task pending: no decision, the task still there
C21_Witness ==
  /\ last_call.op = "resolve_conflict"
  /\ "executive" \notin DOMAIN pending_tasks
  /\ decision = NO_RESULT
  /\ Len(pending_tasks["investment_banking"]) = 1
  /\ tasks_created = 1

(***************************************************************************)
(* The specification of the risk check: _check_trade_risk applied to an    *)
(* order at every position of the ledger below.                            *)
(***************************************************************************)
\* positions of the symbol: none, at and around the thresholds, long and
\* short
RiskPositions ==
  { 0, 2, 10000, 20000, 50000, -2, -10000, -20000, -50000 }

\* quantities: at and around the thresholds and half and three quarters of
\* the positions
RiskQuantities == { 0, 1, 5000, 10000, 10001, 15000, 50000, 50001, 60000 }

RiskOrders ==
  { [type |-> "market", symbol |-> "AAA", quantity |-> q, side |-> sd] :
      q \in RiskQuantities, sd \in {"buy", "sell", "short"} }

RiskInit ==
  /\ NetInit
  /\ ClassifierIdle
  /\ TasksIdle
  /\ internal_messages = [d \in Range(DIVISIONS) |-> << >>]
  /\ final_response = << >>
  /\ responses = << >>
  /\ decision = NO_RESULT
  /\ \E p \in RiskPositions :
       trading_positions = IF p = 0 THEN << >> ELSE [s \in {"AAA"} |-> p]
  /\ client_orders = << >>
  /\ market_making_securities = << >>
  /\ outcome = NO_OUTCOME
  /\ market_simulation = "None"
  /\ FirmIdle

RiskNext ==
  \E order \in RiskOrders :
    /\ last_call = NoCall
    /\ outcome' = Returned(check_trade_risk(trading_positions, order))
    /\ last_call' = Call("_check_trade_risk", "", order, FALSE, 0)
    /\ UNCHANGED << prev_call, net_vars, classifier_vars, task_vars,
                    broker_vars, trading_positions, client_orders,
                    market_making_securities, market_simulation, firm_vars >>

SpecRisk == RiskInit /\ [][RiskNext]_vars

\* the risk check has been applied to the order last_call.target
RiskChecked == last_call.op = "_check_trade_risk"

\* the position of the checked order's symbol before the check
PositionBefore == DictGet(trading_positions, last_call.target.symbol, 0)

\* the position the checked order leads to
PositionAfter ==
  IF last_call.target.side = "buy"
    THEN PositionBefore + last_call.target.quantity
    ELSE PositionBefore - last_call.target.quantity

\* the position changes by more than half of what it was
ChangeAboveHalf ==
  /\ PositionBefore # 0
  /\ 2 * Abs(PositionAfter - PositionBefore) > Abs(PositionBefore)

\* C22: the risk check reports the position plus the quantity for a buy
\* and minus the quantity for any other side; unless the position changes
\* by more than half, the level is low up to 10000, medium above 10000 up
\* to 50000 and high above 50000, in absolute value; the ledger is as it
\* was before the check.
C22_RiskLevelBySizeOfNewPosition ==
  [][ RiskChecked' =>
        /\ trading_positions' = trading_positions
        /\ outcome'.result.new_position = PositionAfter'
        /\ outcome'.result.current_position = PositionBefore'
        /\ ~ ChangeAboveHalf' =>
             outcome'.result.risk_level =
               IF Abs(PositionAfter') <= 10000 THEN "low"
               ELSE IF Abs(PositionAfter') <= 50000 THEN "medium"
               ELSE "high" ]_vars

\* position 0 and a buy of 60000: high
C22_Witness ==
  /\ RiskChecked
  /\ trading_positions = << >>
  /\ last_call.target.side = "buy"
  /\ last_call.target.quantity = 60000
  /\ outcome.result.new_position = 60000
  /\ outcome.result.risk_level = "high"

\* C23: when the position is not 0 and changes by more than half of what it
\* was, the level is high with the reason of the change, whatever the size
\* of the new position; at position 0 the change rule does not apply and
\* the change reported is 0.
C23_ChangeAboveHalfIsHigh ==
  RiskChecked =>
    /\ ChangeAboveHalf =>
         /\ outcome.result.risk_level = "high"
         /\ outcome.result.reason = "position change above 50%"
    /\ PositionBefore = 0 =>
         /\ outcome.result.reason # "position change above 50%"
         /\ outcome.result.change_percentage[1] = 0

\* position 20000 and a sale of 15000: new position 5000, high
C23_Witness ==
  /\ RiskChecked
  /\ PositionBefore = 20000
  /\ last_call.target.side = "sell"
  /\ last_call.target.quantity = 15000
  /\ outcome.result.new_position = 5000
  /\ outcome.result.risk_level = "high"
  /\ outcome.result.change_percentage = << 15000, 20000 >>

(***************************************************************************)
(* The handlers of the trading desk.                                       *)
(***************************************************************************)
\* SalesTradingAgent.process_task has been called with last_call.target
Handled(type) ==
  /\ last_call.op = "process_task"
  /\ last_call.target.type = type

\* C24: when the desk handles an execute_trade task whose order is of high
\* risk and which is not forced, the handler returns the status
\* pending_risk_approval, risk_compliance has one more message in its inbox
\* and the ledger is as before.
C24_HighRiskTradeIsBlockedAndReported ==
  [][ (Handled("execute_trade")' /\ NeedsApproval(last_call'.target)) =>
        /\ outcome'.returned
        /\ outcome'.result.status = "pending_risk_approval"
        /\ trading_positions' = trading_positions
        /\ Len(internal_messages'["risk_compliance"])
             = Len(internal_messages["risk_compliance"]) + 1 ]_vars

\* the quantity of the order, signed by its side
SignedQuantity(order) ==
  IF order.side = "buy" THEN order.quantity ELSE - order.quantity

\* the execute_trade tasks the desk has completed that were not held back
\* for approval
ExecutedTrades ==
  { i \in 1..Len(completed_tasks[TRADING_DESK]) :
      /\ completed_tasks[TRADING_DESK][i].task.type = "execute_trade"
      /\ ~ NeedsApproval(completed_tasks[TRADING_DESK][i].task) }

\* the sum of the signed quantities of the first k completed tasks that are
\* executed trades in the symbol
RECURSIVE ExecutedNet(_, _)
ExecutedNet(symbol, k) ==
  IF k = 0 THEN 0
  ELSE ExecutedNet(symbol, k - 1)
         + (IF /\ k \in ExecutedTrades
               /\ order_of(completed_tasks[TRADING_DESK][k].task).symbol
                    = symbol
              THEN SignedQuantity(
                     order_of(completed_tasks[TRADING_DESK][k].task))
              ELSE 0)

\* C25: in every state the position of a symbol is the sum of the
\* quantities of the trades in it that the desk has executed, bought ones
\* counted positive and sold ones negative, each once.
C25_LedgerIsSumOfExecutedTrades ==
  \A symbol \in {"AAA", ""} :
    DictGet(trading_positions, symbol, 0)
      = ExecutedNet(symbol, Len(completed_tasks[TRADING_DESK]))

\* C26: when the desk handles a client order that the validator turns
\* down, the handler returns the status rejected with the validator's
\* reason, no task is added and no position changes.
C26_InvalidClientOrderIsRejected ==
  [][ ( /\ Handled("client_order")'
        /\ ~ validate_order(order_of(last_call'.target)).valid ) =>
        /\ outcome'.returned
        /\ outcome'.result.status = "rejected"
        /\ pending_tasks' = pending_tasks
        /\ trading_positions' = trading_positions ]_vars

\* C28: when the desk has handled an execute_trade task whose order is of
\* high risk and which is not forced, the order is among the recorded
\* orders with the status pending_risk_approval.
C28_BlockedOrderIsRecordedPendingApproval ==
  ( /\ Handled("execute_trade")
    /\ NeedsApproval(last_call.target) ) =>
    \E i \in 1..Len(client_orders) :
      /\ client_orders[i].status = "pending_risk_approval"
      /\ client_orders[i].quantity = order_of(last_call.target).quantity
      /\ client_orders[i].side = order_of(last_call.target).side

(***************************************************************************)
(* The communication round (checked under SpecBroker).                     *)
(***************************************************************************)
\* the number of tasks pending at the departments registered before the
\* k-th
RECURSIVE PendingBefore(_)
PendingBefore(k) ==
  IF k <= 1 THEN 0
  ELSE PendingBefore(k - 1) + Len(pending_tasks[DIVISIONS[k - 1]])

\* the number of messages with a sender in the inboxes of the first k
\* departments
RECURSIVE SentBefore(_)
SentBefore(k) ==
  IF k = 0 THEN 0
  ELSE SentBefore(k - 1)
         + Cardinality({ i \in 1..Len(internal_messages[DIVISIONS[k]]) :
               "sender" \in DOMAIN internal_messages[DIVISIONS[k]][i] })

RoundRan == last_call.op = "internal_communication_round"

\* C29: one internal_communication_round completes the pending tasks of
\* every department once each, department after department in the order of
\* registration: the j-th pending task of the k-th department is logged
\* after the tasks already completed there, at the tick of the clock that
\* follows all tasks of the departments before it and the j - 1 tasks before
\* it; no task stays pending; every inbox ends empty and every message in it
\* that names a sender is recorded in the history.
C29_RoundDrainsDepartmentsInRegistrationOrder ==
  [][ RoundRan' =>
        /\ \A k \in 1..Len(DIVISIONS) :
             LET d == DIVISIONS[k]
                 done == Len(completed_tasks[d])
             IN  /\ pending_tasks'[d] = << >>
                 /\ Len(completed_tasks'[d]) = done + Len(pending_tasks[d])
                 /\ SubSeq(completed_tasks'[d], 1, done) = completed_tasks[d]
                 /\ \A j \in 1..Len(pending_tasks[d]) :
                      /\ completed_tasks'[d][done + j].task
                           = pending_tasks[d][j]
                      /\ completed_tasks'[d][done + j].timestamp
                           = now + PendingBefore(k) + j - 1
                 /\ internal_messages'[d] = << >>
        /\ now' = now + PendingBefore(Len(DIVISIONS) + 1)
        /\ Len(communication_history')
             = Len(communication_history) + SentBefore(Len(DIVISIONS)) ]_vars

\* a round has run with tasks pending at two departments, the later
\* registered one's task logged after the earlier one's, and a message
\* recorded
C29_Witness ==
  /\ RoundRan
  /\ \E k1, k2 \in 1..Len(DIVISIONS) :
       /\ k1 < k2
       /\ completed_tasks[DIVISIONS[k1]] # << >>
       /\ completed_tasks[DIVISIONS[k2]] # << >>
       /\ completed_tasks[DIVISIONS[k1]][1].timestamp
            < completed_tasks[DIVISIONS[k2]][1].timestamp
  /\ communication_history # << >>

(***************************************************************************)
(* BrokerIntegration: the events of the market handed to the broker and    *)
(* the actions of the broker handed to the market simulator.  The          *)
(* simulator is the object given at construction, or None; a call of one   *)
(* of its methods returns a value or raises an Exception whose str() is    *)
(* the cause.                                                              *)
(***************************************************************************)
MaxMarketTicks == 3

NOT_CONNECTED == "not connected to the market simulator"

UNKNOWN_ACTION == "unknown market action type: "

\* what a call of the simulator does: return a value or raise
Gateways ==
  { [raises |-> FALSE, result |-> "done"],
    [raises |-> TRUE, cause |-> "market closed"] }

\* _execute_market_action with the gateway's exception left to the caller
execute_market_action_without_try(action, gateway) ==
  LET action_type == DictGet(action, "type", "")
  IN  IF market_simulation = "None"
        THEN Returned([status |-> "failed", reason |-> NOT_CONNECTED])
      ELSE IF action_type \in {"place_order", "cancel_order", "market_making"}
        THEN IF gateway.raises
               THEN Raised("Exception", "_execute_market_action")
               ELSE Returned([status |-> "success",
                              result |-> gateway.result])
      ELSE Returned([status |-> "failed",
                     reason |-> << UNKNOWN_ACTION, action_type >>])

\* BrokerIntegration._execute_market_action: the value returned.  Each of
\* the three known types reads its arguments from the action with get and
\* makes one call of the simulator inside the try.
execute_market_action(action, gateway) ==
  LET action_type == DictGet(action, "type", "")
  IN  IF market_simulation = "None"
        THEN Returned([status |-> "failed", reason |-> NOT_CONNECTED])
      ELSE IF action_type \in {"place_order", "cancel_order", "market_making"}
        THEN IF gateway.raises
               THEN Returned([status |-> "failed",
                              reason |-> gateway.cause])
               ELSE Returned([status |-> "success",
                              result |-> gateway.result])
      ELSE Returned([status |-> "failed",
                     reason |-> << UNKNOWN_ACTION, action_type >>])

\* divisions[dept].add_task(task) followed by divisions[dept].process_tasks()
add_and_process(dept, task, B) ==
  run_process_tasks(dept,
    [B EXCEPT !.pending_tasks[dept] = Append(@, task)])

UPDATE_TARGETS == << "research", "sales_trading", "executive" >>

\* the loop of _handle_market_update from the k-th target on; st holds the
\* broker and the responses collected
RECURSIVE distribute_update(_, _, _)
distribute_update(k, event, st) ==
  IF k > Len(UPDATE_TARGETS) THEN st
  ELSE LET dept == UPDATE_TARGETS[k]
       IN  IF dept \in DOMAIN st.B.pending_tasks
             THEN LET task == [type |-> "market_update",
                               content |-> DictGet(event, "content", ""),
                               data |-> DictGet(event, "data", << >>),
                               timestamp |-> DictGet(event, "timestamp", "")]
                      B == add_and_process(dept, task, st.B)
                  IN  distribute_update(k + 1, event,
                        [B |-> B,
                         responses |->
                           IF B.results # << >>
                             THEN DictSet(st.responses, dept, B.results[1])
                             ELSE st.responses])
             ELSE distribute_update(k + 1, event, st)

NO_ACTION == [status |-> "processed", action |-> "none"]

\* BrokerIntegration._handle_market_update
integration_handle_market_update(event, gateway, B) ==
  LET st == distribute_update(1, event, [B |-> B, responses |-> << >>])
      reply == DictGet(st.responses, "sales_trading", << >>)
  IN  [B |-> st.B,
       outcome |-> IF "action" \in DOMAIN reply
                     THEN execute_market_action(reply.action, gateway)
                     ELSE Returned(NO_ACTION)]

\* BrokerIntegration._handle_trading_opportunity
integration_handle_trading_opportunity(event, B) ==
  LET opportunity == DictGet(event, "content", "")
      data == DictGet(event, "data", << >>)
      has_research == "research" \in DOMAIN B.pending_tasks
      analysed ==
        IF has_research
          THEN add_and_process("research",
                 [type |-> "opportunity_analysis", content |-> opportunity,
                  data |-> data], B)
          ELSE B
      results == analysed.results
  IN  IF ~ has_research /\ "sales_trading" \in DOMAIN B.pending_tasks
        THEN [B |-> B,
              outcome |-> Raised("NameError", "_handle_trading_opportunity")]
      ELSE IF /\ has_research
              /\ results # << >>
              /\ DictGet(results[1], "recommendation", "None") = "reject"
        THEN [B |-> analysed,
              outcome |->
                Returned([status |-> "rejected",
                          reason |-> DictGet(results[1], "reason",
                                             "research advises against")])]
      ELSE IF "sales_trading" \in DOMAIN B.pending_tasks
        THEN LET task == [type |-> "execute_trade",
                          content |-> opportunity,
                          data |-> data,
                          analysis |-> IF results # << >> THEN results[1]
                                       ELSE "None"]
                 traded == add_and_process("sales_trading", task, analysed)
             IN  [B |-> traded,
                  outcome |->
                    IF traded.results # << >>
                      THEN Returned([status |-> "executed",
                                     result |-> traded.results[1]])
                      ELSE Returned(NO_ACTION)]
      ELSE [B |-> analysed, outcome |-> Returned(NO_ACTION)]

\* BrokerIntegration._handle_regulatory_announcement
integration_handle_regulatory_announcement(event, B) ==
  IF "risk_compliance" \notin DOMAIN B.pending_tasks
    THEN [B |-> B, outcome |-> Returned([status |-> "received"])]
  ELSE
    LET announcement == DictGet(event, "content", "")
        analysed ==
          add_and_process("risk_compliance",
            [type |-> "regulatory_analysis", content |-> announcement,
             data |-> DictGet(event, "data", << >>)], B)
        results == analysed.results
    IN  IF results = << >>
          THEN [B |-> analysed, outcome |-> Returned([status |-> "received"])]
        ELSE IF /\ DictGet(results[1], "action_required", FALSE)
                /\ "executive" \in DOMAIN B.pending_tasks
          THEN LET answered ==
                     add_and_process("executive",
                       [type |-> "regulatory_response",
                        content |-> announcement,
                        analysis |-> results[1]], analysed)
               IN  [B |-> answered,
                    outcome |->
                      IF answered.results # << >>
                        THEN Returned(
                               [status |-> "action_taken",
                                action |-> DictGet(answered.results[1],
                                                   "action", "None")])
                        ELSE Returned(
                               [status |-> "analyzed",
                                impact |-> DictGet(results[1], "impact",
                                                   "unknown")])]
        ELSE [B |-> analysed,
              outcome |->
                Returned([status |-> "analyzed",
                          impact |-> DictGet(results[1], "impact",
                                             "unknown")])]

\* the departments a client request names
REQUEST_DEPARTMENTS ==
  [investment_banking |-> "investment_banking",
   trading |-> "sales_trading",
   research |-> "research",
   wealth_management |-> "wealth_management",
   asset_management |-> "asset_management"]

\* BrokerIntegration._handle_client_request, for a request that names its
\* department and carries no sender
integration_handle_client_request(event, B) ==
  LET target_dept == REQUEST_DEPARTMENTS[event.request_type]
  IN  IF target_dept \in DOMAIN B.pending_tasks
        THEN LET done ==
                   add_and_process(target_dept,
                     [type |-> "client_request",
                      content |-> DictGet(event, "content", ""),
                      client |-> "unknown",
                      data |-> DictGet(event, "data", << >>)], B)
             IN  [B |-> done,
                  outcome |->
                    IF done.results # << >>
                      THEN Returned(
                             [status |-> "processed",
                              response |-> DictGet(done.results[1],
                                                   "message", "")])
                      ELSE Returned([status |-> "unprocessed"])]
        ELSE [B |-> B, outcome |-> Returned([status |-> "unprocessed"])]

\* BrokerIntegration.process_market_event, for the events of the four types
\* it handles itself
process_market_event(event, gateway) ==
  LET type == DictGet(event, "type", "")
      done ==
        CASE type = "market_update" ->
               integration_handle_market_update(event, gateway, broker_state)
          [] type = "trading_opportunity" ->
               integration_handle_trading_opportunity(event, broker_state)
          [] type = "regulatory_announcement" ->
               integration_handle_regulatory_announcement(event, broker_state)
          [] type = "client_request" ->
               integration_handle_client_request(event, broker_state)
  IN  /\ outcome' = done.outcome
      /\ pending_tasks' = done.B.pending_tasks
      /\ completed_tasks' = done.B.completed_tasks
      /\ task_results' = done.B.results
      /\ now' = done.B.now
      /\ UNCHANGED << admission, tasks_created >>

\* events of the market: updates, opportunities with and without the data
\* of an order, an announcement, a request of a client
MarketEvents ==
  { [type |-> "market_update", content |-> "update", data |-> d] :
      d \in { << >>,
              [securities |->
                 << [symbol |-> "AAA", price_change |-> 10,
                     volume_change |-> 0] >>] } }
    \cup { [type |-> "trading_opportunity", content |-> "opportunity",
            data |-> d] :
             d \in { << >>,
                     [symbol |-> "AAA", quantity |-> 100, side |-> "buy"],
                     [symbol |-> "", quantity |-> -5, side |-> "hold"] } }
    \cup { [type |-> "regulatory_announcement", content |-> "announcement"],
           [type |-> "client_request", content |-> "request",
            request_type |-> "trading"] }

\* actions handed to _execute_market_action
MarketActions ==
  { [type |-> "place_order",
     order |-> [symbol |-> "AAA", type |-> "market", quantity |-> 100,
                side |-> "buy"]],
    [type |-> "cancel_order", order_id |-> 1],
    [type |-> "market_making", symbol |-> "AAA", bid |-> 99, ask |-> 101,
     quantity |-> 10],
    [type |-> "rebalance"],
    << >> }

\* the broker as constructed, with a simulator attached or without one
MarketInit ==
  /\ BrokerNetInit
  /\ ClassifierIdle
  /\ pending_tasks = [d \in Range(DIVISIONS) |-> << >>]
  /\ completed_tasks = [d \in Range(DIVISIONS) |-> << >>]
  /\ task_results = << >>
  /\ admission =
       [d \in Range(DIVISIONS) |-> [overridden |-> FALSE, rejects |-> {}]]
  /\ tasks_created = 0
  /\ now = 0
  /\ internal_messages = [d \in Range(DIVISIONS) |-> << >>]
  /\ final_response = << >>
  /\ responses = << >>
  /\ decision = NO_RESULT
  /\ trading_positions = << >>
  /\ client_orders = << >>
  /\ market_making_securities = << >>
  /\ outcome = NO_OUTCOME
  /\ market_simulation \in {"None", "attached"}
  /\ FirmIdle

MarketNext ==
  \/ \E event \in MarketEvents, gateway \in Gateways :
       /\ now < MaxMarketTicks
       /\ process_market_event(event, gateway)
       /\ Called(Call("process_market_event", "", event, FALSE, 0))
       /\ UNCHANGED << net_vars, classifier_vars, broker_vars,
                       trading_positions, client_orders,
                       market_making_securities, market_simulation, firm_vars >>
  \/ \E action \in MarketActions, gateway \in Gateways :
       /\ outcome' = execute_market_action(action, gateway)
       /\ Called(Call("_execute_market_action", gateway, action, FALSE, 0))
       /\ UNCHANGED << net_vars, classifier_vars, task_vars, broker_vars,
                       trading_positions, client_orders,
                       market_making_securities, market_simulation, firm_vars >>

SpecMarket == MarketInit /\ [][MarketNext]_vars

(***************************************************************************)
(* Properties of the integration (checked under SpecMarket).               *)
(***************************************************************************)
ActionExecuted == last_call.op = "_execute_market_action"

KNOWN_ACTIONS == {"place_order", "cancel_order", "market_making"}

\* C30: _execute_market_action always returns: without a simulator the
\* result is failed with the not-connected reason; with a simulator and an
\* action of an unknown type it is failed with a reason naming the type;
\* with a simulator, a known type and a call of the simulator that raises it
\* is failed with the cause as reason; and in every case the network, the
\* task lists, the inboxes, the desk's ledger and the simulator are as they
\* were.
C30_MarketActionFailureIsReturnedNotRaised ==
  [][ ActionExecuted' =>
        LET action == last_call'.target
            gateway == last_call'.source
            type == DictGet(action, "type", "")
        IN  /\ outcome'.returned
            /\ market_simulation = "None" =>
                 /\ outcome'.result.status = "failed"
                 /\ outcome'.result.reason = NOT_CONNECTED
            /\ (market_simulation # "None" /\ type \notin KNOWN_ACTIONS) =>
                 /\ outcome'.result.status = "failed"
                 /\ outcome'.result.reason = << UNKNOWN_ACTION, type >>
            /\ ( /\ market_simulation # "None"
                 /\ type \in KNOWN_ACTIONS
                 /\ gateway.raises ) =>
                 /\ outcome'.result.status = "failed"
                 /\ outcome'.result.reason = gateway.cause
            /\ UNCHANGED << net_vars, task_vars, broker_vars,
                            trading_positions, client_orders,
                            market_making_securities,
                            market_simulation, firm_vars >> ]_vars

\* an order was placed on an attached simulator whose call raised, and the
\* event that followed was processed and returned
C30_Witness ==
  /\ prev_call.op = "_execute_market_action"
  /\ market_simulation = "attached"
  /\ DictGet(prev_call.target, "type", "") = "place_order"
  /\ prev_call.source.raises
  /\ last_call.op = "process_market_event"
  /\ outcome.returned
  /\ completed_tasks["sales_trading"] # << >>

\* C27: when process_market_event reports an event as executed, the
\* execute_trade task the desk completed for it carries an order that passes
\* the validator, as its details (where the desk's handler reads the order)
\* or as its data (where the event carries it).
C27_OrderReportedExecutedIsValid ==
  ( /\ last_call.op = "process_market_event"
    /\ outcome.returned
    /\ outcome.result.status = "executed" ) =>
    LET log == completed_tasks[TRADING_DESK]
    IN  /\ log # << >>
        /\ log[Len(log)].task.type = "execute_trade"
        /\ \/ validate_order(order_of(log[Len(log)].task)).valid
           \/ validate_order(DictGet(log[Len(log)].task, "data", << >>)).valid

(***************************************************************************)
(* The desk's methods called one at a time on a SalesTradingAgent whose     *)
(* ledger and quote list hold what a caller has put there (the desk's own   *)
(* handlers, which raise before they write, leave both empty).              *)
(***************************************************************************)
MaxSecurities == 2

Quote(symbol, status) ==
  [symbol |-> symbol, bid |-> 990000, ask |-> 1010000, status |-> status]

DeskQuotes ==
  { << >>,
    << Quote("AAA", "active") >>,
    << Quote("AAA", "inactive") >>,
    << Quote("AAA", "inactive"), Quote("AAA", "active"),
       Quote("AAA", "active") >>,
    << Quote("BBB", "active"), Quote("AAA", "active") >> }

DeskPositions ==
  { << >> } \cup { [s \in {"AAA"} |-> p] : p \in {0, 3, -4, 5, 100, -100} }

\* securities of market data: price changes of 0, 5%, 6% and -10%, volume
\* changes of 0, 100% and 150%
ObservedSecurities ==
  { [symbol |-> sym, price |-> 100, price_change |-> c[1],
     volume_change |-> c[2]] :
      sym \in {"AAA", "BBB"},
      c \in ({0, 6, -10} \X {0, 150}) \cup { << 5, 100 >> } }

\* securities handed to _adjust_market_making
QuotedSecurities ==
  ObservedSecurities
    \cup { [symbol |-> "AAA"],
           [symbol |-> "AAA", price |-> 0, price_change |-> 10],
           [symbol |-> "AAA", price |-> 7, price_change |-> -10],
           [price |-> 100, price_change |-> 10] }

RECURSIVE SeqsUpTo(_, _)
SeqsUpTo(S, n) ==
  IF n = 0 THEN { << >> }
  ELSE SeqsUpTo(S, n - 1)
         \cup { Append(q, x) : q \in { r \in SeqsUpTo(S, n - 1) :
                                         Len(r) = n - 1 }, x \in S }

ObservedData ==
  { [securities |-> q] : q \in SeqsUpTo(ObservedSecurities, MaxSecurities) }
    \cup { << >> }

PositionInfos ==
  { [symbol |-> "AAA", current_position |-> p, recommended_action |-> a] :
      p \in {0, 3, -4, 5, 100, -100}, a \in {"reduce", "hold"} }
    \cup { [symbol |-> "AAA", current_position |-> 100] }

DeskInit ==
  /\ NetInit
  /\ ClassifierIdle
  /\ pending_tasks = [d \in {TRADING_DESK} |-> << >>]
  /\ completed_tasks = [d \in {TRADING_DESK} |-> << >>]
  /\ task_results = << >>
  /\ admission =
       [d \in {TRADING_DESK} |-> [overridden |-> FALSE, rejects |-> {}]]
  /\ tasks_created = 0
  /\ now = 0
  /\ internal_messages = [d \in Range(DIVISIONS) |-> << >>]
  /\ final_response = << >>
  /\ responses = << >>
  /\ decision = NO_RESULT
  /\ trading_positions \in DeskPositions
  /\ market_making_securities \in DeskQuotes
  /\ client_orders = << >>
  /\ outcome = NO_OUTCOME
  /\ market_simulation = "None"
  /\ FirmIdle

DeskNext ==
  \/ \E market_data \in ObservedData :
       /\ last_call = NoCall
       /\ outcome' =
            Returned(analyze_market_data(trading_positions, market_data))
       /\ last_call' =
            Call("_analyze_market_data", TRADING_DESK, market_data, FALSE, 0)
       /\ UNCHANGED << prev_call, net_vars, classifier_vars, task_vars,
                       broker_vars, trading_positions, client_orders,
                       market_making_securities, market_simulation, firm_vars >>
  \/ \E security \in QuotedSecurities :
       /\ last_call = NoCall
       /\ market_making_securities' =
            adjust_market_making(market_making_securities, security)
       /\ outcome' =
            IF adjust_market_making_raises(market_making_securities, security)
              THEN Raised("AttributeError", "_adjust_market_making")
              ELSE Returned(NO_RESULT)
       /\ last_call' =
            Call("_adjust_market_making", TRADING_DESK, security, FALSE, 0)
       /\ UNCHANGED << prev_call, net_vars, classifier_vars, task_vars,
                       broker_vars, trading_positions, client_orders,
                       market_simulation, firm_vars >>
  \/ \E position_info \in PositionInfos :
       /\ last_call = NoCall
       /\ outcome' =
            IF adjust_position_raises(position_info)
              THEN Raised("AttributeError", "_adjust_position")
              ELSE Returned(NO_RESULT)
       /\ last_call' =
            Call("_adjust_position", TRADING_DESK, position_info, FALSE, 0)
       /\ UNCHANGED << prev_call, net_vars, classifier_vars, task_vars,
                       broker_vars, trading_positions, client_orders,
                       market_making_securities, market_simulation, firm_vars >>

SpecDesk == DeskInit /\ [][DeskNext]_vars

\* _adjust_market_making has been called for the security last_call.target
QuotesAdjusted == last_call.op = "_adjust_market_making"

PositionAdjusted == last_call.op = "_adjust_position"

\* C32: _adjust_position for a position to reduce of which a fifth, rounded
\* down, is not zero returns with one execute_trade task added to the
\* desk's pending tasks, for that fifth and the opposing side, and one
\* message added to the inbox of risk_compliance.
C32_ReduceEnqueuesOneOpposingTrade ==
  [][ ( /\ PositionAdjusted'
        /\ DictGet(last_call'.target, "recommended_action", "hold") = "reduce"
        /\ Abs(last_call'.target.current_position) >= 5 ) =>
        /\ outcome'.returned
        /\ Len(pending_tasks'[TRADING_DESK])
             = Len(pending_tasks[TRADING_DESK]) + 1
        /\ LET task == pending_tasks'[TRADING_DESK]
                         [Len(pending_tasks'[TRADING_DESK])]
           IN  /\ task.type = "execute_trade"
               /\ task.details.quantity
                    = Abs(last_call'.target.current_position) \div 5
               /\ task.details.side
                    = IF last_call'.target.current_position > 0
                        THEN "sell" ELSE "buy"
        /\ Len(internal_messages'["risk_compliance"])
             = Len(internal_messages["risk_compliance"]) + 1 ]_vars

\* _analyze_market_data has been called for the data last_call.target
Analysed == last_call.op = "_analyze_market_data"

Observed == DictGet(last_call.target, "securities", << >>)

\* the observed entries for which a threshold is exceeded
Fires(security) == price_moved(security) \/ volume_moved(security)

\* the entries of a sequence that are at the indexes of the set, in order
RECURSIVE Picked(_, _, _)
Picked(seq, indexes, k) ==
  IF k > Len(seq) THEN << >>
  ELSE (IF k \in indexes THEN << seq[k] >> ELSE << >>)
         \o Picked(seq, indexes, k + 1)

\* the observed entries whose price moved and whose symbol is in the ledger
Exposed ==
  { i \in 1..Len(Observed) :
      /\ price_moved(Observed[i])
      /\ Observed[i].symbol \in DOMAIN trading_positions }

\* the recommendation for an exposed entry: reduce when the price moves
\* against the position
Recommended(security) ==
  LET p == trading_positions[security.symbol]
  IN  IF \/ (security.price_change < 0 /\ p > 0)
         \/ (security.price_change > 0 /\ p < 0)
        THEN "reduce" ELSE "hold"

PositionsScheduledFor(indexes) ==
  /\ Len(outcome.result.affected_positions) = Cardinality(indexes)
  /\ \A k \in 1..Len(outcome.result.affected_positions) :
       LET entry == Picked(Observed, indexes, 1)[k]
           listed == outcome.result.affected_positions[k]
       IN  /\ listed.symbol = entry.symbol
           /\ listed.current_position = trading_positions[entry.symbol]
           /\ listed.recommended_action = Recommended(entry)

QuietWhenNothingFires ==
  (\A i \in 1..Len(Observed) : ~ Fires(Observed[i])) =>
    /\ outcome.result.affected_securities = << >>
    /\ outcome.result.affected_positions = << >>
    /\ outcome.result.volatility = "low"
    /\ outcome.result.liquidity = "normal"

\* C33 as stated: the securities scheduled for quote reevaluation are the
\* observed entries for which the price or the volume threshold is
\* exceeded, each once, in the order observed; the positions scheduled are
\* those of the entries whose price moved and whose symbol is held, with
\* reduce exactly when the price moves against the position; when nothing
\* exceeds a threshold nothing is scheduled, volatility is low and liquidity
\* normal.
C33_EveryFiringSecurityScheduledOnce ==
  Analysed =>
    /\ outcome.result.affected_securities
         = Picked(Observed, { i \in 1..Len(Observed) : Fires(Observed[i]) }, 1)
    /\ PositionsScheduledFor(Exposed)
    /\ QuietWhenNothingFires

\* the observed entries _analyze_market_data lists: those whose price
\* moved, and those of which only the volume moved unless an entry of the
\* same symbol is listed before them
RECURSIVE Scheduled(_)
Scheduled(i) ==
  \/ price_moved(Observed[i])
  \/ /\ volume_moved(Observed[i])
     /\ \A j \in 1..(i - 1) :
          Observed[j].symbol = Observed[i].symbol => ~ Scheduled(j)

\* C33 amended: the securities scheduled for quote reevaluation are, in the
\* order observed, every entry whose price moved and every entry of which
\* only the volume moved and before which no entry of the same symbol is
\* scheduled (so an entry for which both thresholds are exceeded is listed
\* once); the positions scheduled are those of the entries whose price moved
\* and whose symbol is in the ledger, a position of zero included, with
\* reduce exactly when the price moves against the position; when nothing
\* exceeds a threshold nothing is scheduled, volatility is low and liquidity
\* normal.
C33_ScheduledUnlessSymbolAlreadyListed ==
  Analysed =>
    /\ outcome.result.affected_securities
         = Picked(Observed, { i \in 1..Len(Observed) : Scheduled(i) }, 1)
    /\ PositionsScheduledFor(Exposed)
    /\ QuietWhenNothingFires

\* an entry for which both thresholds are exceeded, observed alone and
\* listed once, with the position held against the move to be reduced
C33_Witness ==
  /\ Analysed
  /\ Len(Observed) = 1
  /\ price_moved(Observed[1]) /\ volume_moved(Observed[1])
  /\ Len(outcome.result.affected_securities) = 1
  /\ Len(outcome.result.affected_positions) = 1
  /\ outcome.result.affected_positions[1].recommended_action = "reduce"

(***************************************************************************)
(* InvestmentBankingAgent: an agent of the class constructed with the      *)
(* broker as its broker_parent and called directly.  Its handlers record a *)
(* deal and send messages to other departments; complete_deal closes a     *)
(* deal.                                                                   *)
(***************************************************************************)
MaxDeals == 3

INVESTMENT_BANK == "investment_banking"

\* the deal a handler records for a task, and the departments it writes to,
\* by the type of the task
DEAL_KINDS ==
  [ipo_underwriting |->
     [type |-> "ipo", party |-> "company",
      notified |-> << "research", "risk_compliance" >>],
   bond_issuance |->
     [type |-> "bond", party |-> "issuer",
      notified |-> << "sales_trading", "risk_compliance" >>],
   ma_advisory |->
     [type |-> "ma", party |-> "client", notified |-> << "research" >>],
   financing_advisory |->
     [type |-> "financing", party |-> "client",
      notified |-> << "asset_management" >>]]

\* the deal of _handle_ipo_underwriting, _handle_bond_issuance,
\* _handle_ma_advisory and _handle_financing_advisory
deal_of(task) ==
  LET kind == DEAL_KINDS[task.type]
      named == DictGet(DictGet(task, kind.party, << >>), "name", "unknown")
      deal == [type |-> kind.type, status |-> "in_progress",
               details |-> DictGet(task, "details", << >>)]
  IN  IF task.type = "ma_advisory"
        THEN DictSet(DictSet(deal, "client", named), "target",
               DictGet(DictGet(task, "target", << >>), "name", "unknown"))
        ELSE DictSet(deal, kind.party, named)

\* the send_internal_message calls of a handler, one after the other
RECURSIVE notify_each(_, _, _, _)
notify_each(text, notified, k, B) ==
  IF k > Len(notified) THEN B
  ELSE notify_each(text, notified, k + 1,
         send_internal_message(INVESTMENT_BANK, text, << notified[k] >>, B))

\* InvestmentBankingAgent.process_task: the handler of the task's type; for
\* any other type super().process_task, which BrokerSubAgent does not have
InvestmentBankingAgent_process_task(task) ==
  IF DictGet(task, "type", "") \in DOMAIN DEAL_KINDS
    THEN LET deal == deal_of(task)
             B == notify_each(<< "preparing ", deal.type >>,
                              DEAL_KINDS[task.type].notified, 1, broker_state)
         IN  /\ current_deals' = Append(current_deals, deal)
             /\ internal_messages' = B.internal_messages
             /\ now' = B.now
             /\ outcome' = Returned([message |-> << "received ", deal.type >>,
                                     deal |-> deal])
             /\ UNCHANGED deal_history
    ELSE /\ outcome' = Raised("AttributeError", "process_task")
         /\ UNCHANGED << current_deals, deal_history, internal_messages, now >>

\* InvestmentBankingAgent.complete_deal: for an index in range the deal is
\* popped and its status set, and the next statement evaluates
\* self.get_current_time(), which no class defines
complete_deal(deal_index, status, results) ==
  IF 0 <= deal_index /\ deal_index < Len(current_deals)
    THEN /\ current_deals' =
              SubSeq(current_deals, 1, deal_index)
                \o SubSeq(current_deals, deal_index + 2, Len(current_deals))
         /\ outcome' = Raised("AttributeError", "complete_deal")
         /\ UNCHANGED << deal_history, internal_messages, now >>
    ELSE /\ outcome' = Returned(FALSE)
         /\ UNCHANGED << current_deals, deal_history, internal_messages,
                         now >>

\* tasks handed to the investment bank: one of each type it handles and one
\* it does not, each carrying its serial number in its details
DealTasks(serial) ==
  { [type |-> "ipo_underwriting", company |-> [name |-> "Acme"],
     details |-> [serial |-> serial]],
    [type |-> "bond_issuance", issuer |-> [name |-> "Acme"],
     details |-> [serial |-> serial]],
    [type |-> "ma_advisory", client |-> [name |-> "Acme"],
     target |-> [name |-> "Bolt"], details |-> [serial |-> serial]],
    [type |-> "financing_advisory", details |-> [serial |-> serial]],
    [type |-> "client_request", details |-> [serial |-> serial]] }

DealsInit ==
  /\ BrokerInit

DealsNext ==
  \/ \E task \in DealTasks(tasks_created + 1) :
       /\ tasks_created < MaxDeals
       /\ tasks_created' = tasks_created + 1
       /\ InvestmentBankingAgent_process_task(task)
       /\ last_call' = Call("process_task", INVESTMENT_BANK, task, FALSE, 0)
       /\ UNCHANGED << prev_call, net_vars, classifier_vars, pending_tasks,
                       completed_tasks, task_results, admission,
                       final_response, responses, decision,
                       trading_positions, client_orders,
                       market_making_securities, market_simulation, balance,
                       transaction_history >>
  \/ \E deal_index \in -1..MaxDeals, status \in {"completed", "cancelled"} :
       /\ complete_deal(deal_index, status, << >>)
       /\ last_call' =
            Call("complete_deal", INVESTMENT_BANK, deal_index, FALSE, 0)
       /\ UNCHANGED << prev_call, net_vars, classifier_vars, pending_tasks,
                       completed_tasks, task_results, admission,
                       tasks_created, final_response, responses, decision,
                       trading_positions, client_orders,
                       market_making_securities, market_simulation, balance,
                       transaction_history >>
  \/ /\ internal_communication_round
     /\ last_call' = Call("internal_communication_round", "", "", FALSE, 0)
     /\ UNCHANGED << prev_call, classifier_vars, final_response,
                     responses, decision, trading_vars, firm_vars >>

SpecDeals == DealsInit /\ [][DealsNext]_vars

\* the serial numbers of the deals in a list
SerialsIn(deals) == { deals[i].details.serial : i \in 1..Len(deals) }

\* C34: when complete_deal is called with an index in range, it returns
\* true, the deal at that index is taken out of the current deals and put,
\* with the status given, at the end of the history; no other deal moves.
C34_CompletedDealMovesToHistory ==
  [][ ( /\ last_call'.op = "complete_deal"
        /\ 0 <= last_call'.target
        /\ last_call'.target < Len(current_deals) ) =>
        /\ outcome'.returned
        /\ Len(deal_history') = Len(deal_history) + 1
        /\ deal_history'[Len(deal_history')].details
             = current_deals[last_call'.target + 1].details
        /\ SerialsIn(current_deals') \cup SerialsIn(deal_history')
             = SerialsIn(current_deals) \cup SerialsIn(deal_history)
        /\ SerialsIn(current_deals') \cap SerialsIn(deal_history') = {} ]_vars

\* C36: every message in an inbox was sent along an edge of the network:
\* there is an edge from its sender to the department that holds it.
C36_InboxMessagesFollowEdges ==
  \A d \in DOMAIN internal_messages :
    \A i \in 1..Len(internal_messages[d]) :
      "sender" \in DOMAIN internal_messages[d][i] =>
        << internal_messages[d][i].sender, d >> \in network.edges

\* the records of the messages in the inboxes of the departments from the
\* k-th registered on: department by department, each inbox in its order
RECURSIVE InboxRecords(_)
InboxRecords(k) ==
  IF k > Len(DIVISIONS) THEN << >>
  ELSE [i \in 1..Len(internal_messages[DIVISIONS[k]]) |->
          [source |-> internal_messages[DIVISIONS[k]][i].sender,
           target |-> DIVISIONS[k],
           message |-> internal_messages[DIVISIONS[k]][i],
           timestamp |-> internal_messages[DIVISIONS[k]][i].timestamp]]
         \o InboxRecords(k + 1)

\* C35: a step of internal_communication_round leaves every inbox empty and
\* appends to the history one record for every message that was in an
\* inbox, from the message's sender to the inbox's department, department
\* by department in the order of registration and each inbox in its order;
\* and no step of any operation removes, moves or changes a record that is
\* in the history.
C35_RoundRecordsEveryInboxMessageInOrder ==
  [][ /\ RoundRan' =>
           /\ \A d \in DOMAIN internal_messages :
                internal_messages'[d] = << >>
           /\ communication_history'
                = communication_history \o InboxRecords(1)
      /\ Len(communication_history') >= Len(communication_history)
      /\ SubSeq(communication_history', 1, Len(communication_history))
           = communication_history ]_vars

\* a round has recorded messages of two inboxes, and a round before it
\* another message
C35_Witness ==
  /\ RoundRan
  /\ Len(communication_history) >= 3
  /\ communication_history[1].timestamp
       < communication_history[2].timestamp
  /\ communication_history[3].timestamp
       < communication_history[2].timestamp
  /\ communication_history[3].target
       # communication_history[2].target

\* C37: the result process_message attributes to the task it has just
\* added to a department and drained is the result of that task: the i-th
\* response carries the id of the i-th task the call created.
C37_AttributedResultIsOfTheTaskJustAdded ==
  [][ last_call'.op = "process_message" =>
        \A i \in 1..Len(responses') :
          DictGet(responses'[i].response, "task_id", 0) = tasks_created + i
    ]_vars

\* the places task id is at in the pending lists and completed logs given:
\* the positions that hold it
Places(id, pending, completed) ==
  UNION { { << d, "pending", i >> :
              i \in { j \in 1..Len(pending[d]) : pending[d][j].id = id } }
          \cup
          { << d, "completed", i >> :
              i \in { j \in 1..Len(completed[d]) :
                        completed[d][j].task.id = id } } :
          d \in DOMAIN pending }

\* the departments that hold task id
Holders(id, pending, completed) ==
  { p[1] : p \in Places(id, pending, completed) }

\* C38: after every add_task and every process_tasks, each task added so
\* far is at exactly one place, in the pending list or in the completed
\* log of one department, and that department is the one that held it
\* before the step; add_task puts the task at the end of the pending list
\* of the department it is called on and touches no other list.
C38_TasksAreConserved ==
  [][ /\ \A id \in 1..tasks_created' : Cardinality(Places(id, pending_tasks', completed_tasks')) = 1
      /\ \A id \in 1..tasks_created :
           Holders(id, pending_tasks', completed_tasks')
             = Holders(id, pending_tasks, completed_tasks)
      /\ last_call'.op = "add_task" =>
           /\ Len(pending_tasks'[last_call'.source])
                = Len(pending_tasks[last_call'.source]) + 1
           /\ SubSeq(pending_tasks'[last_call'.source], 1,
                     Len(pending_tasks[last_call'.source]))
                = pending_tasks[last_call'.source]
           /\ pending_tasks'[last_call'.source]
                [Len(pending_tasks'[last_call'.source])].id = tasks_created'
           /\ Holders(tasks_created', pending_tasks', completed_tasks')
                = { last_call'.source }
           /\ \A d \in DOMAIN pending_tasks \ { last_call'.source } :
                pending_tasks'[d] = pending_tasks[d]
           /\ completed_tasks' = completed_tasks ]_vars

\* process_tasks of a department has kept one task pending and completed
\* another while a second department holds a task of its own
C38_Witness ==
  /\ last_call.op = "process_tasks"
  /\ tasks_created = 3
  /\ \E d \in DOMAIN pending_tasks, e \in DOMAIN pending_tasks :
       /\ d # e
       /\ d = last_call.source
       /\ Len(pending_tasks[d]) = 1
       /\ Len(completed_tasks[d]) = 1
       /\ Len(pending_tasks[e]) + Len(completed_tasks[e]) = 1

MaxTransfers == 3

\* the ids of the agents
Parties == { "broker", "peer" }

\* config["initial_balance"] of an agent
InitialBalances == { 0, 2, 5 }

\* the amounts transfer_funds is called with: negative, zero, and positive
\* ones within and beyond the balances
Amounts == { -1, 0, 1, 2, 3, 6 }

AMOUNT_NOT_POSITIVE == "the amount must be positive"

INSUFFICIENT_BALANCE == "insufficient balance"

\* the transfer made whatever the sender's balance
transfer_funds_unchecked(sender, recipient, amount, description) ==
  IF amount <= 0
    THEN /\ outcome' = Returned([ok |-> FALSE,
                                 message |-> AMOUNT_NOT_POSITIVE])
         /\ UNCHANGED << balance, transaction_history, now >>
    ELSE LET debited == [balance EXCEPT ![sender] = @ - amount]
             transaction == [from |-> sender, to |-> recipient,
                             amount |-> amount,
                             description |-> description,
                             timestamp |-> now]
             sent == [transaction_history EXCEPT
                        ![sender] = Append(@, transaction)]
         IN  /\ balance' = [debited EXCEPT ![recipient] = @ + amount]
             /\ transaction_history' =
                  [sent EXCEPT ![recipient] = Append(@, transaction)]
             /\ now' = now + 1
             /\ outcome' = Returned([ok |-> TRUE,
                                     transaction |-> transaction])

\* BrokerAgent.transfer_funds of agent sender; the pair it returns is the
\* record of its flag and its message or transaction
transfer_funds(sender, recipient, amount, description) ==
  IF amount <= 0
    THEN /\ outcome' = Returned([ok |-> FALSE,
                                 message |-> AMOUNT_NOT_POSITIVE])
         /\ UNCHANGED << balance, transaction_history, now >>
  ELSE IF balance[sender] < amount
    THEN /\ outcome' = Returned([ok |-> FALSE,
                                 message |-> INSUFFICIENT_BALANCE])
         /\ UNCHANGED << balance, transaction_history, now >>
    ELSE LET debited == [balance EXCEPT ![sender] = @ - amount]
             transaction == [from |-> sender, to |-> recipient,
                             amount |-> amount,
                             description |-> description,
                             timestamp |-> now]
             sent == [transaction_history EXCEPT
                        ![sender] = Append(@, transaction)]
         IN  /\ balance' = [debited EXCEPT ![recipient] = @ + amount]
             /\ transaction_history' =
                  [sent EXCEPT ![recipient] = Append(@, transaction)]
             /\ now' = now + 1
             /\ outcome' = Returned([ok |-> TRUE,
                                     transaction |-> transaction])

FundsInit ==
  /\ NetInit
  /\ ClassifierIdle
  /\ TasksIdle
  /\ tasks_created = 0
  /\ now = 0
  /\ internal_messages = [d \in Range(DIVISIONS) |-> << >>]
  /\ final_response = << >>
  /\ responses = << >>
  /\ decision = NO_RESULT
  /\ trading_positions = << >>
  /\ client_orders = << >>
  /\ market_making_securities = << >>
  /\ outcome = NO_OUTCOME
  /\ market_simulation = "None"
  /\ current_deals = << >>
  /\ deal_history = << >>
  /\ balance \in [Parties -> InitialBalances]
  /\ transaction_history = [p \in Parties |-> << >>]

FundsNext ==
  \E sender \in Parties, recipient \in Parties, amount \in Amounts :
    /\ now < MaxTransfers
    /\ transfer_funds(sender, recipient, amount, "fee")
    /\ last_call' =
         Call("transfer_funds", sender,
              [recipient |-> recipient, amount |-> amount], FALSE, 0)
    /\ UNCHANGED << prev_call, net_vars, classifier_vars, pending_tasks,
                    completed_tasks, task_results, admission, tasks_created,
                    broker_vars, trading_positions, client_orders,
                    market_making_securities, market_simulation,
                    current_deals, deal_history >>

SpecFunds == FundsInit /\ [][FundsNext]_vars

\* the sum of the balances b of the agents in S
RECURSIVE TotalBalance(_, _)
TotalBalance(b, S) ==
  IF S = {} THEN 0
  ELSE LET p == CHOOSE q \in S : TRUE
       IN  b[p] + TotalBalance(b, S \ {p})

\* the transaction t, if the agent is the one named
AsParty(agent, named, t) == IF agent = named THEN << t >> ELSE << >>

=============================================================================
